---- MODULE Spec2Model ----
(***************************************************************************)
(* QuantScaleAI: model of the quantitative engine.                         *)
(*                                                                         *)
(*   data/optimizer.py        PortfolioOptimizer.optimize_portfolio        *)
(*   core/schema.py           OptimizationResult.validate_weights          *)
(*   analytics/risk_model.py  RiskModel.compute_covariance_matrix          *)
(*   main.py, api/app.py      QuantScaleSystem.run_pipeline, POST /optimize*)
(*   analytics/attribution.py AttributionEngine.generate_attribution_report*)
(*   analytics/tax_module.py  TaxEngine.check_wash_sale_rule, find_proxy,  *)
(*                            harvest_losses                               *)
(*   data/data_manager.py     SectorCache, fetch_sp500_tickers             *)
(*                                                                         *)
(* Weights are fixed-point integers: one unit is 5e-5, so that the 1e-4    *)
(* cleanup epsilon is 2 units and a full investment is ONE units.  A       *)
(* difference of sums smaller than one unit is smaller than 1e-6 only if   *)
(* it is zero, so "within 1e-6" is equality in this representation.        *)
(* The weight cap is kept as an exact fraction <<numerator, denominator>>. *)
(***************************************************************************)
EXTENDS Integers, Sequences, FiniteSets, TLC

VARIABLES
    \* ---- optimize_portfolio (data/optimizer.py) ----
    opt_pc,        \* "idle" | "ready" (problem built) | "solved" | "done"
    opt_args,      \* the arguments of the call in progress
    opt_excl,      \* excluded_indices after the dedupe (a set of 1-based indices)
    opt_cap,       \* MAX_WEIGHT_LIMIT as <<num, den>>
    opt_solves,    \* number of prob.solve invocations of this call
    opt_prob,      \* what prob.solve left behind: status, w.value, prob.value
    opt_out,       \* the outcome of the call: a result or a raised exception
    \* ---- compute_covariance_matrix (analytics/risk_model.py) ----
    cov_pc,        \* "idle" | "done"
    cov_panel,     \* the returns DataFrame: rows, cols, all values finite
    cov_fits,      \* number of LedoitWolf.fit invocations of this call
    cov_out,       \* the outcome of the call
    \* ---- run_pipeline / POST /optimize (main.py, api/app.py) ----
    pipe_pc,       \* position of the request inside run_pipeline
    pipe_req,      \* the OptimizationRequest
    pipe_env,      \* what the collaborators supply: universe file, price panel
    pipe_stages,   \* the stages invoked so far, in order
    pipe_out,      \* what run_pipeline returned or raised
    api_resp,      \* the HTTP response of POST /optimize
    \* ---- the dynamic cap of optimize_portfolio as a function ----
    cap_pc,        \* "idle" | "done"
    cap_in,        \* n_assets and len(excluded_indices)
    cap_out,       \* n_active and MAX_WEIGHT_LIMIT
    \* ---- generate_attribution_report (analytics/attribution.py) ----
    attr_pc,       \* "idle" | "totals" (line 87) | "computed" (line 104) | "done"
    attr_in,       \* the arguments of the call in progress
    attr_calc,     \* the locals of the call: df, the totals, the two lists
    attr_out,      \* the outcome of the call: a report or a raised exception
    \* ---- check_wash_sale_rule (analytics/tax_module.py) ----
    wash_pc,       \* "idle" | "done"
    wash_in,       \* symbol, transaction_date, recent_transactions
    wash_out,      \* the returned bool
    \* ---- find_proxy (analytics/tax_module.py) ----
    proxy_pc,      \* "idle" | "done"
    proxy_in,      \* loser_ticker, sector, candidate_tickers, correlation_matrix
    proxy_out,     \* the returned ticker
    \* ---- harvest_losses (analytics/tax_module.py) ----
    tax_pc,        \* "idle" | "called" | "done"
    tax_in,        \* the arguments as they were when the call was made
    tax_heap,      \* the argument objects themselves: the lots are mutable
    tax_out,       \* the returned list of HarvestOpportunity
    \* ---- the sector cache of the singleton system (data/data_manager.py) ----
    share_map,     \* SectorCache.sector_map: the dict every request works on
    share_file,    \* the cache file written by save_cache
    share_req,     \* per request thread: position, items being loaded, the
                   \* content of the map when get_sector_map returned it
    share_writers, \* the requests that have written the map or the file
    \* ---- prob.solve inside optimize_portfolio (data/optimizer.py 116-130) ----
    solve_pc,      \* "idle" | "running" (inside prob.solve) | "returned" | "done"
    solve_opts,    \* the keyword arguments prob.solve was called with
    solve_clock,   \* time spent inside prob.solve, in ticks
    solve_status,  \* prob.status once prob.solve has returned
    solve_out      \* the outcome of lines 119-130

optVars  == <<opt_pc, opt_args, opt_excl, opt_cap, opt_solves, opt_prob, opt_out>>
covVars  == <<cov_pc, cov_panel, cov_fits, cov_out>>
pipeVars == <<pipe_pc, pipe_req, pipe_env, pipe_stages, pipe_out, api_resp>>
capVars  == <<cap_pc, cap_in, cap_out>>
attrVars == <<attr_pc, attr_in, attr_calc, attr_out>>
washVars == <<wash_pc, wash_in, wash_out>>
proxyVars == <<proxy_pc, proxy_in, proxy_out>>
taxVars  == <<tax_pc, tax_in, tax_heap, tax_out>>
shareVars == <<share_map, share_file, share_req, share_writers>>
solveVars == <<solve_pc, solve_opts, solve_clock, solve_status, solve_out>>
vars     == <<optVars, covVars, pipeVars, capVars, attrVars, washVars,
              proxyVars, taxVars, shareVars, solveVars>>

\* what the actions of one component leave alone
notOpt   == <<covVars, pipeVars, capVars, attrVars, washVars, proxyVars, taxVars,
             shareVars, solveVars>>
notCov   == <<optVars, pipeVars, capVars, attrVars, washVars, proxyVars, taxVars,
             shareVars, solveVars>>
notPipe  == <<optVars, covVars, capVars, attrVars, washVars, proxyVars, taxVars,
             shareVars, solveVars>>
notCap   == <<optVars, covVars, pipeVars, attrVars, washVars, proxyVars, taxVars,
             shareVars, solveVars>>
notAttr  == <<optVars, covVars, pipeVars, capVars, washVars, proxyVars, taxVars,
             shareVars, solveVars>>
notWash  == <<optVars, covVars, pipeVars, capVars, attrVars, proxyVars, taxVars,
             shareVars, solveVars>>
notProxy == <<optVars, covVars, pipeVars, capVars, attrVars, washVars, taxVars,
             shareVars, solveVars>>
notShare == <<optVars, covVars, pipeVars, capVars, attrVars, washVars, proxyVars,
             taxVars, solveVars>>
notTax   == <<optVars, covVars, pipeVars, capVars, attrVars, washVars, proxyVars,
             shareVars, solveVars>>
notSolve == <<optVars, covVars, pipeVars, capVars, attrVars, washVars, proxyVars,
             taxVars, shareVars>>

None    == "None"   \* a missing string
NoValue == <<>>     \* a missing vector or fraction (Python None)

(***************************************************************************)
(* Bounds of the model                                                     *)
(***************************************************************************)
MaxAssets       == 3   \* universes of 1..MaxAssets tickers
MaxExclSectors  == 2   \* excluded_sectors lists of length 0..MaxExclSectors
MaxCapAssets    == 15  \* universe sizes of the cap computation
MaxRows         == 7   \* time observations of a returns panel
MaxCols         == 6   \* assets of a returns panel
MaxTxns         == 2   \* transactions of a wash-sale history
MaxCandidates   == 3   \* candidate_tickers lists of find_proxy
MaxLots         == 2   \* portfolio_lots lists of harvest_losses
MaxTicks        == 8   \* ticks a solve is followed for

(***************************************************************************)
(* Fixed-point scale and program constants                                 *)
(***************************************************************************)
EPS          == 2               \* 1e-4 in weight units (optimizer.py:138)
ONE          == EPS * 10000     \* 1.0 in weight units
KEEP_MIN     == 2               \* 0.0001 in weight units (schema.py:56)
CAP_FLOOR    == <<1, 5>>        \* 0.20  (optimizer.py:101)
CAP_SPREAD   == <<3, 2>>        \* 1.5   (optimizer.py:101)

(***************************************************************************)
(* Exact fractions <<num, den>> with den > 0                               *)
(***************************************************************************)
RatLeq(a, b) == a[1] * b[2] <= b[1] * a[2]
RatMax(a, b) == IF RatLeq(a, b) THEN b ELSE a

RECURSIVE GCD(_, _)
GCD(a, b) == IF b = 0 THEN a ELSE GCD(b, a % b)

\* lowest terms
RatNorm(a) ==
    LET n == IF a[1] < 0 THEN 0 - a[1] ELSE a[1]
        g == GCD(n, a[2])
    IN  IF a[1] < 0 THEN <<0 - (n \div g), a[2] \div g>>
                    ELSE <<n \div g, a[2] \div g>>
RatAdd(a, b) ==
    LET g == GCD(a[2], b[2])
    IN  RatNorm(<<a[1] * (b[2] \div g) + b[1] * (a[2] \div g),
                  (a[2] \div g) * b[2]>>)
RatNeg(a)    == <<0 - a[1], a[2]>>
RatSub(a, b) == RatAdd(a, RatNeg(b))
RatMul(a, b) ==
    LET x == RatNorm(<<a[1], b[2]>>)
        y == RatNorm(<<b[1], a[2]>>)
    IN  <<x[1] * y[1], x[2] * y[2]>>
\* a / b for b > 0
RatDiv(a, b) == RatMul(a, <<b[2], b[1]>>)
RatLt(a, b)  == a[1] * b[2] < b[1] * a[2]
RatZero      == <<0, 1>>
\* w (weight units) <= cap
UnitsLeqRat(w, cap) == w * cap[2] <= cap[1] * ONE

(***************************************************************************)
(* The universe, its sectors, and str.lower() on the sector names used     *)
(***************************************************************************)
Tickers == <<"AAPL", "XOM", "JPM", "MSFT", "NEE">>

\* sector_map: JPM has no entry, so sector_map.get(ticker, "Unknown") applies
SectorMap == [t \in {"AAPL", "XOM", "MSFT", "NEE"} |->
                 CASE t = "AAPL" -> "Information Technology"
                   [] t = "XOM"  -> "Energy"
                   [] t = "MSFT" -> "Information Technology"
                   [] t = "NEE"  -> "Utilities"]

SectorGet(sector_map, ticker) ==
    IF ticker \in DOMAIN sector_map THEN sector_map[ticker] ELSE "Unknown"

\* the values a caller puts in excluded_sectors
ExclSectorNames == {"energy", "Technology", "UNKNOWN"}

Lower(s) ==
    CASE s = "energy"                 -> "energy"
      [] s = "Energy"                 -> "energy"
      [] s = "Technology"             -> "technology"
      [] s = "UNKNOWN"                -> "unknown"
      [] s = "Unknown"                -> "unknown"
      [] s = "Information Technology" -> "information technology"
      [] s = "Utilities"              -> "utilities"
      [] OTHER                        -> s

(***************************************************************************)
(* optimize_portfolio: binding of the call                                 *)
(***************************************************************************)
\* the parameters of optimize_portfolio (self apart)
OptimizerParams ==
    {"covariance_matrix", "tickers", "benchmark_weights", "sector_map",
     "excluded_sectors", "excluded_tickers"}

\* the keywords of the call in run_pipeline
PipelineKwargs ==
    {"covariance_matrix", "tickers", "benchmark_weights", "sector_map",
     "excluded_sectors", "excluded_tickers", "max_weight"}

\* the arguments of the calls in debug_optimizer_tech.py (positional)
DirectKwargs ==
    {"covariance_matrix", "tickers", "benchmark_weights", "sector_map",
     "excluded_sectors"}

\* Python raises TypeError for a keyword the function does not declare
BindsOk(kwargs) == kwargs \subseteq OptimizerParams

(***************************************************************************)
(* optimize_portfolio: exclusions (optimizer.py 67-94)                     *)
(***************************************************************************)
\* mutant: the comparison without case folding and without the alias
SectorMatchesExact(excl, sector) == excl = sector

SectorMatches(excl, sector) ==
    \/ Lower(excl) = Lower(sector)
    \/ (excl = "Technology" /\ sector = "Information Technology")

\* the sector loop: index i is appended once per matching entry
RECURSIVE SectorLoop(_, _, _, _)
SectorLoop(tickers, sector_map, excluded_sectors, i) ==
    IF i > Len(tickers) THEN <<>>
    ELSE LET sector == SectorGet(sector_map, tickers[i])
             hits   == SelectSeq(excluded_sectors,
                                 LAMBDA e : SectorMatches(e, sector))
         IN  [k \in 1..Len(hits) |-> i]
                 \o SectorLoop(tickers, sector_map, excluded_sectors, i + 1)

\* the ticker loop
RECURSIVE TickerLoop(_, _, _)
TickerLoop(tickers, excluded_tickers, i) ==
    IF i > Len(tickers) THEN <<>>
    ELSE (IF tickers[i] \in excluded_tickers THEN <<i>> ELSE <<>>)
             \o TickerLoop(tickers, excluded_tickers, i + 1)

\* excluded_indices before the dedupe
ExcludedIndicesList(tickers, sector_map, excluded_sectors, excluded_tickers) ==
    (IF excluded_sectors # <<>>
        THEN SectorLoop(tickers, sector_map, excluded_sectors, 1) ELSE <<>>)
    \o
    (IF excluded_tickers # {}
        THEN TickerLoop(tickers, excluded_tickers, 1) ELSE <<>>)

\* list(set(excluded_indices))
Dedupe(list) == {list[k] : k \in DOMAIN list}

\* mutant: the length of the list without the dedupe
ExcludedCountNoDedupe(list) == Len(list)

\* the value compared with n_assets by the pre-solve check
ExcludedCount(list) == Cardinality(Dedupe(list))

(***************************************************************************)
(* optimize_portfolio: the dynamic cap (optimizer.py 96-104)               *)
(***************************************************************************)
NActive(n_assets, n_excluded) ==
    IF n_assets - n_excluded = 0 THEN 1 ELSE n_assets - n_excluded

\* mutant: the fixed cap without the dynamic part
DynamicMaxFixed(n_active) == CAP_FLOOR

\* max(0.20, (1.0 / n_active) * 1.5)
DynamicMax(n_active) ==
    RatMax(CAP_FLOOR, <<CAP_SPREAD[1], CAP_SPREAD[2] * n_active>>)

\* lines 96-104 on their own: the cap as a function of the two counts
CapInit ==
    /\ cap_pc = "idle"
    /\ cap_in = [n_assets |-> 0, n_excluded |-> 0]
    /\ cap_out = [n_active |-> 0, limit |-> <<0, 1>>]

\* the pre-solve check (line 93) lets through only n_excluded < n_assets
CapCompute ==
    /\ cap_pc = "idle"
    /\ \E n \in 1..MaxCapAssets : \E x \in 0..(n - 1) :
         /\ cap_in' = [n_assets |-> n, n_excluded |-> x]
         /\ cap_out' = [n_active |-> NActive(n, x),
                        limit |-> DynamicMax(NActive(n, x))]
    /\ cap_pc' = "done"
    /\ UNCHANGED notCap

CapReturn ==
    /\ cap_pc = "done"
    /\ cap_pc' = "idle"
    /\ cap_in' = [n_assets |-> 0, n_excluded |-> 0]
    /\ cap_out' = [n_active |-> 0, limit |-> <<0, 1>>]
    /\ UNCHANGED notCap

(***************************************************************************)
(* Inputs of optimize_portfolio drawn by the model                         *)
(***************************************************************************)
Universe(n) == SubSeq(Tickers, 1, n)

RECURSIVE SeqsUpTo(_, _)
SeqsUpTo(S, k) ==
    IF k = 0 THEN {<<>>}
    ELSE LET shorter == SeqsUpTo(S, k - 1)
         IN  shorter \cup {Append(q, x) : q \in shorter, x \in S}

\* benchmark weights whose last ticker carries `tail` units.  "even" spreads
\* the rest evenly over the other tickers; "skew" gives the first ticker 0.6.
BenchmarkTails  == {1, 2, 3}
BenchmarkShapes == {"even", "skew"}
Benchmark(n, shape, tail) ==
    IF n = 1 THEN <<ONE>>
    ELSE LET head == IF shape = "skew" /\ n > 2 THEN 3 * (ONE \div 5) ELSE 0
             m    == IF head > 0 THEN n - 2 ELSE n - 1
             rest == ONE - tail - head
             base == rest \div m
             extra == rest % m
             k(i) == IF head > 0 THEN i - 1 ELSE i
         IN  [i \in 1..n |->
                IF i = n THEN tail
                ELSE IF head > 0 /\ i = 1 THEN head
                ELSE base + (IF k(i) <= extra THEN 1 ELSE 0)]

\* covariance matrices: dim x dim, diagonal, variances 1 ("iso") or 1,2,1,2..
CovKinds == {"iso", "alt"}
Covariance(dim, kind) ==
    [dim  |-> dim,
     diag |-> [i \in 1..dim |-> IF kind = "alt" /\ i % 2 = 0 THEN 2 ELSE 1]]

(***************************************************************************)
(* The quadratic program handed to cvxpy (optimizer.py 53-117) and the     *)
(* solver.  The solver is modelled on a finite grid of weight vectors: an  *)
(* optimal status comes with a minimiser of the objective over the grid    *)
(* points that satisfy every constraint.                                   *)
(***************************************************************************)
SumSeq(w) ==
    LET RECURSIVE S(_)
        S(i) == IF i = 0 THEN 0 ELSE w[i] + S(i - 1)
    IN  S(Len(w))

\* mutant: the constraints without w <= MAX_WEIGHT_LIMIT
FeasibleNoCap(w, excluded, cap) ==
    /\ SumSeq(w) = ONE
    /\ \A i \in DOMAIN w : w[i] >= 0
    /\ \A i \in excluded : w[i] = 0

\* the constraints list: sum(w) == 1, w >= 0, w <= MAX_WEIGHT_LIMIT,
\* w[excluded_indices] == 0
Feasible(w, excluded, cap) ==
    /\ SumSeq(w) = ONE
    /\ \A i \in DOMAIN w : w[i] >= 0
    /\ \A i \in DOMAIN w : UnitsLeqRat(w[i], cap)
    /\ \A i \in excluded : w[i] = 0

\* (w - w_b)' Sigma (w - w_b) for a diagonal Sigma
Objective(w, w_b, cov) ==
    LET RECURSIVE Q(_)
        Q(i) == IF i = 0 THEN 0
                ELSE cov.diag[i] * (w[i] - w_b[i]) * (w[i] - w_b[i]) + Q(i - 1)
    IN  Q(Len(w))

CapUnits(cap) == (cap[1] * ONE) \div cap[2]

\* the grid of one coordinate
GridValues(b, cap) ==
    {v \in {0, b, CapUnits(cap)} \cup {k * (ONE \div 4) : k \in 1..4} :
        v >= 0 /\ v <= ONE}

RECURSIVE GridVectors(_, _, _, _)
GridVectors(w_b, cap, i, left) ==
    IF i > Len(w_b) THEN (IF left = 0 THEN {<<>>} ELSE {})
    ELSE UNION { { <<v>> \o rest : rest \in GridVectors(w_b, cap, i + 1, left - v) }
                 : v \in {x \in GridValues(w_b[i], cap) : x <= left} }

FeasibleSet(w_b, excluded, cap) ==
    {w \in GridVectors(w_b, cap, 1, ONE) : Feasible(w, excluded, cap)}

Minimisers(w_b, cov, excluded, cap) ==
    LET F    == FeasibleSet(w_b, excluded, cap)
        vals == {Objective(w, w_b, cov) : w \in F}
        best == CHOOSE v \in vals : \A u \in vals : v <= u
    IN  IF F = {} THEN {} ELSE {w \in F : Objective(w, w_b, cov) = best}

\* statuses of cvxpy that come with no solution
FailedStatuses == {"infeasible", "unbounded"}
\* statuses of cvxpy that come with a solution
SolvedStatuses == {"optimal", "optimal_inaccurate", "user_limit"}

\* what prob.solve can leave behind when it returns
SolveOutcomes(w_b, cov, excluded, cap) ==
    LET M == Minimisers(w_b, cov, excluded, cap)
    IN  {[status |-> s, w |-> NoValue, value |-> 0] :
            s \in FailedStatuses \cup {"optimal", "optimal_inaccurate"}}
        \cup
        {[status |-> s, w |-> w, value |-> Objective(w, w_b, cov)] :
            s \in SolvedStatuses, w \in M}

(***************************************************************************)
(* optimize_portfolio: after the solve (optimizer.py 127-160) and the      *)
(* validator of OptimizationResult (schema.py 53-56)                       *)
(***************************************************************************)
\* mutant: no status is rejected
StatusAcceptedAll(status) == TRUE

\* prob.status not in [cp.OPTIMAL, cp.OPTIMAL_INACCURATE] raises
StatusAccepted(status) == status \in {"optimal", "optimal_inaccurate"}

\* mutant: a cleanup epsilon of 1e-3
CleanupCoarse(w) == [i \in DOMAIN w |-> IF w[i] < 10 * EPS THEN 0 ELSE w[i]]

\* optimal_weights[optimal_weights < 1e-4] = 0
Cleanup(w) == [i \in DOMAIN w |-> IF w[i] < EPS THEN 0 ELSE w[i]]

\* {tickers[i]: float(optimal_weights[i]) for i in range(n_assets) if optimal_weights[i] > 0}
WeightDict(tickers, w) ==
    [t \in {tickers[i] : i \in {j \in DOMAIN w : w[j] > 0}} |->
        w[CHOOSE i \in DOMAIN tickers : tickers[i] = t]]

\* {k: val for k, val in v.items() if val > 0.0001}
ValidateWeights(v) == [t \in {k \in DOMAIN v : v[k] > KEEP_MIN} |-> v[t]]

\* floor of the square root, for np.sqrt(prob.value)
ISqrt(x) ==
    LET RECURSIVE B(_, _)
        B(lo, hi) == IF lo >= hi THEN lo
                     ELSE LET mid == (lo + hi + 1) \div 2
                          IN  IF mid * mid <= x THEN B(mid, hi) ELSE B(lo, mid - 1)
    IN  B(0, 46340)

\* te = np.sqrt(prob.value) if prob.value > 0 else 0.0
TrackingError(value) == IF value > 0 THEN ISqrt(value) ELSE 0

\* the exception type raised at each raise site of the engine
ExcAt(site) ==
    CASE site = "bind"          -> "TypeError"    \* call of main.py 98-106
      [] site = "shape"         -> "ValueError"   \* optimizer.py 49
      [] site = "all_excluded"  -> "ValueError"   \* optimizer.py 94
      [] site = "solver_raised" -> "SolverError"  \* optimizer.py 125 (cvxpy's own)
      [] site = "status"        -> "ValueError"   \* optimizer.py 130
      [] site = "no_weights"    -> "ValueError"   \* optimizer.py 135
      [] site = "empty_returns" -> "ValueError"   \* risk_model.py 30
      [] site = "fit_failed"    -> "ValueError"   \* risk_model.py 58 (sklearn's)

NoOut == [kind |-> "none", site |-> None, exc |-> None, status |-> None,
          weights |-> <<>>, te |-> 0]
Raised(site, status) ==
    [kind |-> "raise", site |-> site, exc |-> ExcAt(site), status |-> status,
     weights |-> <<>>, te |-> 0]
\* OptimizationResult(weights=weight_dict, tracking_error=te, status=prob.status)
OptimizationResult(weights, te, status) ==
    [kind |-> "result", site |-> None, exc |-> None, status |-> status,
     weights |-> ValidateWeights(weights), te |-> te]

NoArgs == [kwargs |-> {}, n |-> 0, tickers |-> <<>>, cov |-> Covariance(0, "iso"),
           w_b |-> <<>>, excluded_sectors |-> <<>>, excluded_tickers |-> {},
           max_weight |-> NoValue]
NoProb == [status |-> None, w |-> NoValue, value |-> 0]
NoCap  == <<0, 1>>

OptInit ==
    /\ opt_pc = "idle"
    /\ opt_args = NoArgs
    /\ opt_excl = {}
    /\ opt_cap = NoCap
    /\ opt_solves = 0
    /\ opt_prob = NoProb
    /\ opt_out = NoOut

\* the values of max_weight a request carries (None: not supplied)
MaxWeightValues == {NoValue, <<1, 20>>, <<1, 2>>}

\* optimize_portfolio up to the construction of the problem (lines 46-117)
OptEnter(args) ==
    /\ opt_pc = "idle"
    /\ opt_args' = args
    /\ opt_solves' = 0
    /\ opt_prob' = NoProb
    /\ IF ~BindsOk(args.kwargs)
         THEN /\ opt_out' = Raised("bind", None)
              /\ opt_pc' = "done"
              /\ opt_excl' = {}
              /\ opt_cap' = NoCap
       ELSE IF args.cov.dim # args.n
         THEN /\ opt_out' = Raised("shape", None)
              /\ opt_pc' = "done"
              /\ opt_excl' = {}
              /\ opt_cap' = NoCap
       ELSE LET list == ExcludedIndicesList(args.tickers, SectorMap,
                                            args.excluded_sectors,
                                            args.excluded_tickers)
                excluded == Dedupe(list)
            IN  /\ opt_excl' = excluded
                /\ IF ExcludedCount(list) = args.n
                     THEN /\ opt_out' = Raised("all_excluded", None)
                          /\ opt_pc' = "done"
                          /\ opt_cap' = NoCap
                     ELSE /\ opt_out' = NoOut
                          /\ opt_pc' = "ready"
                          /\ opt_cap' = DynamicMax(NActive(args.n, Cardinality(excluded)))

CallArgs(kwargs, n, dim, kind, shape, tail, xs, xt, mw) ==
    [kwargs |-> kwargs, n |-> n, tickers |-> Universe(n),
     cov |-> Covariance(dim, kind), w_b |-> Benchmark(n, shape, tail),
     excluded_sectors |-> xs, excluded_tickers |-> xt, max_weight |-> mw]

\* a call as in debug_optimizer_tech.py, or with excluded_tickers as well
OptCallDirect ==
    /\ opt_pc = "idle"
    /\ \E n \in 1..MaxAssets, kind \in CovKinds, shape \in BenchmarkShapes,
          tail \in BenchmarkTails, xs \in SeqsUpTo(ExclSectorNames, MaxExclSectors) :
         \E dim \in {n, n + 1}, xt \in SUBSET {Tickers[i] : i \in 1..n},
            kw \in {DirectKwargs, OptimizerParams} :
           /\ (kw = DirectKwargs => xt = {})
           /\ OptEnter(CallArgs(kw, n, dim, kind, shape, tail, xs, xt, NoValue))
    /\ UNCHANGED notOpt

\* the call of run_pipeline (main.py 98-106), which passes max_weight
OptCallPipeline ==
    /\ opt_pc = "idle"
    /\ \E n \in 1..MaxAssets, kind \in CovKinds, tail \in BenchmarkTails,
          xs \in SeqsUpTo(ExclSectorNames, MaxExclSectors), mw \in MaxWeightValues :
         \E xt \in SUBSET {Tickers[i] : i \in 1..n} :
           OptEnter(CallArgs(PipelineKwargs, n, n, kind, "even", tail, xs, xt, mw))
    /\ UNCHANGED notOpt

\* prob.solve(verbose=True) inside the try (lines 119-125)
OptSolve ==
    /\ opt_pc = "ready"
    /\ opt_solves' = opt_solves + 1
    /\ \/ /\ opt_prob' = NoProb          \* the solver raises; the handler re-raises
          /\ opt_out' = Raised("solver_raised", "solver_error")
          /\ opt_pc' = "done"
       \/ /\ opt_prob' \in SolveOutcomes(opt_args.w_b, opt_args.cov, opt_excl, opt_cap)
          /\ opt_out' = NoOut
          /\ opt_pc' = "solved"
    /\ UNCHANGED <<opt_args, opt_excl, opt_cap, notOpt>>

\* status check, extraction, cleanup and result (lines 127-160)
OptFinish ==
    /\ opt_pc = "solved"
    /\ opt_pc' = "done"
    /\ opt_out' =
         IF ~StatusAccepted(opt_prob.status)
           THEN Raised("status", opt_prob.status)
         ELSE IF opt_prob.w = NoValue
           THEN Raised("no_weights", "missing_weights")
         ELSE OptimizationResult(WeightDict(opt_args.tickers, Cleanup(opt_prob.w)),
                                 TrackingError(opt_prob.value), opt_prob.status)
    /\ UNCHANGED <<opt_args, opt_excl, opt_cap, opt_solves, opt_prob, notOpt>>

\* the caller has the outcome; the optimizer keeps no state between calls
OptReturn ==
    /\ opt_pc = "done"
    /\ opt_pc' = "idle"
    /\ opt_args' = NoArgs
    /\ opt_excl' = {}
    /\ opt_cap' = NoCap
    /\ opt_solves' = 0
    /\ opt_prob' = NoProb
    /\ opt_out' = NoOut
    /\ UNCHANGED notOpt

(***************************************************************************)
(* compute_covariance_matrix (risk_model.py 18-58)                         *)
(***************************************************************************)
\* mutant: only the number of rows is looked at
IsEmptyRowsOnly(panel) == panel.rows = 0

\* DataFrame.empty: some axis has length 0
IsEmpty(panel) == panel.rows = 0 \/ panel.cols = 0

\* LedoitWolf().fit(returns.values): scikit-learn validates the array (at
\* least one sample and one feature, no NaN or infinity) and then estimates
\* for any number of samples, fewer than the features included
FitSucceeds(panel) == panel.rows >= 1 /\ panel.cols >= 1 /\ panel.finite

NoPanel  == [rows |-> 0, cols |-> 0, finite |-> TRUE]
NoCovOut == [kind |-> "none", site |-> None, exc |-> None, dim |-> 0, fits |-> 0]

\* the outcome of compute_covariance_matrix(returns); fits counts lw.fit calls
CovarianceOutcome(panel) ==
    IF IsEmpty(panel)
      THEN [kind |-> "raise", site |-> "empty_returns",
            exc |-> ExcAt("empty_returns"), dim |-> 0, fits |-> 0]
    ELSE IF ~FitSucceeds(panel)
      THEN [kind |-> "raise", site |-> "fit_failed",
            exc |-> ExcAt("fit_failed"), dim |-> 0, fits |-> 1]
    ELSE [kind |-> "matrix", site |-> None, exc |-> None,
          dim |-> panel.cols, fits |-> 1]

CovInit ==
    /\ cov_pc = "idle"
    /\ cov_panel = NoPanel
    /\ cov_fits = 0
    /\ cov_out = NoCovOut

CovCall ==
    /\ cov_pc = "idle"
    /\ \E r \in 0..MaxRows, c \in 0..MaxCols, f \in BOOLEAN :
         LET panel == [rows |-> r, cols |-> c, finite |-> f]
             out   == CovarianceOutcome(panel)
         IN  /\ cov_panel' = panel
             /\ cov_out' = out
             /\ cov_fits' = out.fits
    /\ cov_pc' = "done"
    /\ UNCHANGED notCov

CovReturn ==
    /\ cov_pc = "done"
    /\ cov_pc' = "idle"
    /\ cov_panel' = NoPanel
    /\ cov_fits' = 0
    /\ cov_out' = NoCovOut
    /\ UNCHANGED notCov

(***************************************************************************)
(* run_pipeline (main.py 27-135) behind POST /optimize (app.py 29-47)      *)
(***************************************************************************)
\* OptimizationRequest (schema.py 21-32): pydantic checks the types only
Requests ==
    [excluded_sectors : SeqsUpTo(ExclSectorNames, 1),
     excluded_tickers : SUBSET {Tickers[1]},
     max_weight       : {NoValue, <<1, 20>>, <<-1, 1>>},
     strategy         : {None, "bogus"},
     top_n            : {0, 5}]

NoReq == [excluded_sectors |-> <<>>, excluded_tickers |-> {},
          max_weight |-> NoValue, strategy |-> None, top_n |-> 0]
NoEnv == [tickers |-> 0, prices |-> NoPanel]
NoPipeOut == [kind |-> "none", site |-> None, exc |-> None]
NoResp == [kind |-> "none", status_code |-> 0, detail |-> None,
           allocations |-> None, narrative |-> None]

PipeInit ==
    /\ pipe_pc = "idle"
    /\ pipe_req = NoReq
    /\ pipe_env = NoEnv
    /\ pipe_stages = <<>>
    /\ pipe_out = NoPipeOut
    /\ api_resp = NoResp

\* the length of _get_fallback_tickers()
FALLBACK_TICKERS == 21

\* returns = data.pct_change().dropna(): the first row has no predecessor
Returns(prices) ==
    [rows |-> IF prices.rows = 0 THEN 0 ELSE prices.rows - 1,
     cols |-> prices.cols, finite |-> prices.finite]

\* POST /optimize receives a request and enters run_pipeline
ApiReceive ==
    /\ pipe_pc = "idle"
    /\ \E req \in Requests : pipe_req' = req
    /\ pipe_pc' = "start"
    /\ UNCHANGED <<pipe_env, pipe_stages, pipe_out, api_resp, notPipe>>

\* 1. tickers = self.data_engine.fetch_sp500_tickers(): the universe file, or
\*    the fallback list when it is missing or unreadable; never raises
PipeFetchTickers ==
    /\ pipe_pc = "start"
    /\ \E n \in (0..MaxAssets) \cup {FALLBACK_TICKERS} :
         pipe_env' = [pipe_env EXCEPT !.tickers = n]
    /\ pipe_stages' = Append(pipe_stages, "universe")
    /\ pipe_pc' = "tickers"
    /\ UNCHANGED <<pipe_req, pipe_out, api_resp, notPipe>>

\* mutant: the pipeline goes on with an empty frame
PipeFetchDataNoAbort ==
    /\ pipe_pc = "tickers"
    /\ pipe_stages' = Append(pipe_stages, "data")
    /\ \E r \in 0..MaxAssets, c \in 0..MaxAssets, f \in BOOLEAN :
         /\ c <= pipe_env.tickers
         /\ (pipe_env.tickers = 0 => r = 0 /\ c = 0)
         /\ pipe_env' = [pipe_env EXCEPT
                           !.prices = [rows |-> r, cols |-> c, finite |-> f]]
    /\ pipe_out' = NoPipeOut
    /\ pipe_pc' = "data"
    /\ UNCHANGED <<pipe_req, api_resp, notPipe>>

\* 2. data = fetch_market_data(tickers, ...); if data.empty: return None
PipeFetchData ==
    /\ pipe_pc = "tickers"
    /\ pipe_stages' = Append(pipe_stages, "data")
    /\ \E r \in 0..MaxAssets, c \in 0..MaxAssets, f \in BOOLEAN :
         /\ c <= pipe_env.tickers
         /\ (pipe_env.tickers = 0 => r = 0 /\ c = 0)               \* no tickers: pd.DataFrame()
         /\ pipe_env' = [pipe_env EXCEPT
                           !.prices = [rows |-> r, cols |-> c, finite |-> f]]
         /\ IF r = 0 \/ c = 0
              THEN /\ pipe_out' = [kind |-> "None", site |-> "no_market_data", exc |-> None]
                   /\ pipe_pc' = "returned"
              ELSE /\ pipe_out' = NoPipeOut
                   /\ pipe_pc' = "data"
    /\ UNCHANGED <<pipe_req, api_resp, notPipe>>

\* 3. cov_matrix = self.risk_model.compute_covariance_matrix(returns)
PipeCovariance ==
    /\ pipe_pc = "data"
    /\ pipe_stages' = Append(pipe_stages, "covariance")
    /\ LET out == CovarianceOutcome(Returns(pipe_env.prices))
       IN  IF out.kind = "raise"
             THEN /\ pipe_out' = [kind |-> "raise", site |-> out.site, exc |-> out.exc]
                  /\ pipe_pc' = "returned"
             ELSE /\ pipe_out' = NoPipeOut
                  /\ pipe_pc' = "covariance"
    /\ UNCHANGED <<pipe_req, pipe_env, api_resp, notPipe>>

\* 4.-5. benchmark weights, sector map and the call of optimize_portfolio
\*       with max_weight=request.max_weight (main.py 64-106)
PipeOptimize ==
    /\ pipe_pc = "covariance"
    /\ pipe_stages' = Append(pipe_stages, "optimization")
    /\ IF ~BindsOk(PipelineKwargs)
         THEN /\ pipe_out' = [kind |-> "raise", site |-> "bind", exc |-> ExcAt("bind")]
              /\ pipe_pc' = "returned"
         ELSE /\ pipe_out' = NoPipeOut
              /\ pipe_pc' = "optimized"
    /\ UNCHANGED <<pipe_req, pipe_env, api_resp, notPipe>>

\* mutant: the handler answers a failure with an empty portfolio
ApiResponseSwallow(out) ==
    [kind |-> "ok", status_code |-> 200, detail |-> None,
     allocations |-> "empty", narrative |-> "Error generating commentary."]

\* the handler of POST /optimize around run_pipeline (app.py 34-47):
\* a None result raises HTTPException(500) inside the try, and every
\* exception, that one included, becomes HTTPException(500, detail=str(e))
ApiResponse(out) ==
    IF out.kind = "None"
      THEN [kind |-> "error", status_code |-> 500,
            detail |-> "500: Pipeline failed to execute.",
            allocations |-> None, narrative |-> None]
    ELSE [kind |-> "error", status_code |-> 500, detail |-> out.site,
          allocations |-> None, narrative |-> None]

ApiRespond ==
    /\ pipe_pc = "returned"
    /\ api_resp' = ApiResponse(pipe_out)
    /\ pipe_pc' = "responded"
    /\ UNCHANGED <<pipe_req, pipe_env, pipe_stages, pipe_out, notPipe>>

\* the response is sent; the singleton system serves the next request
ApiDone ==
    /\ pipe_pc = "responded"
    /\ pipe_pc' = "idle"
    /\ pipe_req' = NoReq
    /\ pipe_env' = NoEnv
    /\ pipe_stages' = <<>>
    /\ pipe_out' = NoPipeOut
    /\ api_resp' = NoResp
    /\ UNCHANGED notPipe

(***************************************************************************)
(* generate_attribution_report (attribution.py 20-113)                     *)
(*                                                                         *)
(* Weights and returns are exact fractions: a weight of x hundredths is    *)
(* <<x, 100>>, a return of y twentieths is <<y, 20>>.                      *)
(***************************************************************************)
AttrTickers == <<"AAPL", "MSFT", "GOOG", "XOM", "JPM", "NEE">>

\* sector_map of the scenario: the other tickers have no entry
AttrSectorMap == [t \in {"AAPL", "MSFT", "GOOG"} |->
                     CASE t = "AAPL" -> "Technology"
                       [] t = "MSFT" -> "Technology"
                       [] t = "GOOG" -> "Communication Services"]

\* (portfolio weight, benchmark weight, period return) of one ticker:
\* overweight and up, not held and up, neutral and down, and held outside
\* the benchmark with no entry in asset_returns (ret is NoValue)
AttrProfiles ==
    { [wp |-> <<5, 100>>, wb |-> <<4, 100>>, ret |-> <<2, 20>>],
      [wp |-> <<0, 100>>, wb |-> <<6, 100>>, ret |-> <<2, 20>>],
      [wp |-> <<2, 100>>, wb |-> <<2, 100>>, ret |-> <<0 - 1, 20>>],
      [wp |-> <<3, 100>>, wb |-> <<0, 100>>, ret |-> NoValue] }

\* the profiles drawn for the ticker at position i: the three tickers of the
\* scenario take any profile, the tickers after them are neutral and down
AttrProfilesAt(i) ==
    IF i <= 3 THEN AttrProfiles
    ELSE {[wp |-> <<2, 100>>, wb |-> <<2, 100>>, ret |-> <<0 - 1, 20>>]}

HEAD_N == 5    \* head(5), tail(5)

\* sum of the fractions f[x], x in S  (Series.sum())
RECURSIVE RatSum(_, _)
RatSum(f, S) ==
    IF S = {} THEN RatZero
    ELSE LET x == CHOOSE y \in S : TRUE
         IN  RatAdd(f[x], RatSum(f, S \ {x}))

\* Series.fillna(value)
FillNa(v, value) == IF v = NoValue THEN value ELSE v

\* df: one row per ticker of the union of the keys, with the columns wp, wb,
\* ret, sector (lines 38-44) and active_weight, contribution (lines 92-93);
\* rows are named by the position of the ticker in the input
DataFrame(in) ==
    [i \in 1..Len(in.tickers) |->
        LET active_weight == RatSub(in.profile[i].wp, in.profile[i].wb)
            ret           == FillNa(in.profile[i].ret, RatZero)
        IN  [ticker        |-> in.tickers[i],
             wp            |-> in.profile[i].wp,
             wb            |-> in.profile[i].wb,
             ret           |-> ret,
             sector        |-> SectorGet(in.sector_map, in.tickers[i]),
             active_weight |-> active_weight,
             contribution  |-> RatMul(active_weight, ret)]]

\* mutant: the benchmark return over the held rows only
TotalBenchmarkReturnHeld(df) ==
    LET held == {i \in DOMAIN df : RatLt(RatZero, df[i].wp)}
    IN  RatSum([i \in held |-> RatMul(df[i].wb, df[i].ret)], held)

\* total_benchmark_return (line 54)
TotalBenchmarkReturn(df) ==
    RatSum([i \in DOMAIN df |-> RatMul(df[i].wb, df[i].ret)], DOMAIN df)

\* one attribution row (lines 57-81)
AttributionRow(df, sector) ==
    LET data == {i \in DOMAIN df : df[i].sector = sector}
        w_p  == RatSum([i \in data |-> df[i].wp], data)
        w_b  == RatSum([i \in data |-> df[i].wb], data)
        R_p  == IF RatLt(RatZero, w_p)
                THEN RatDiv(RatSum([i \in data |-> RatMul(df[i].wp, df[i].ret)], data), w_p)
                ELSE RatZero
        R_b  == IF RatLt(RatZero, w_b)
                THEN RatDiv(RatSum([i \in data |-> RatMul(df[i].wb, df[i].ret)], data), w_b)
                ELSE RatZero
        allocation_effect  == RatMul(RatSub(w_p, w_b),
                                     RatSub(R_b, TotalBenchmarkReturn(df)))
        selection_effect   == RatMul(w_b, RatSub(R_p, R_b))
        interaction_effect == RatMul(RatSub(w_p, w_b), RatSub(R_p, R_b))
    IN  [sector      |-> sector,
         allocation  |-> allocation_effect,
         selection   |-> selection_effect,
         interaction |-> interaction_effect]

\* attr_df and its column sums (lines 83-87)
AttributionTotals(df) ==
    LET sectors == {df[i].sector : i \in DOMAIN df}
        attr_df == [s \in sectors |-> AttributionRow(df, s)]
    IN  [total_allocation  |-> RatSum([s \in sectors |-> attr_df[s].allocation], sectors),
         total_selection   |-> RatSum([s \in sectors |-> attr_df[s].selection], sectors),
         total_interaction |-> RatSum([s \in sectors |-> attr_df[s].interaction], sectors)]

\* list(all_tickers): the iteration order of a set of strings (lines 38-39)
RowOrders(n) == Permutations(1..n)

\* sort_values(by='contribution', ascending=False) on fewer than 16 rows:
\* descending, rows of equal contribution stay in the order of the frame
SortValues(df, rows) ==
    LET n == Len(df)
        Before(q, p) ==
            \/ RatLt(df[rows[p]].contribution, df[rows[q]].contribution)
            \/ /\ df[rows[p]].contribution = df[rows[q]].contribution
               /\ q < p
    IN  [k \in 1..n |->
            rows[CHOOSE p \in 1..n :
                    Cardinality({q \in 1..n : Before(q, p)}) = k - 1]]

HeadRows(s, k) == SubSeq(s, 1, IF Len(s) < k THEN Len(s) ELSE k)
TailRows(s, k) == SubSeq(s, IF Len(s) < k THEN 1 ELSE Len(s) - k + 1, Len(s))

\* an element of index.tolist(): a Python str
Str(t) == [type |-> "str", value |-> t]

\* the keyword arguments of the AttributionReport call (lines 95-113)
ReportArgs(df, t, sorted_contrib) ==
    LET Label(s) == [k \in 1..Len(s) |-> Str(df[s[k]].ticker)]
    IN  [allocation_effect   |-> t.total_allocation,
         selection_effect    |-> RatAdd(t.total_selection, t.total_interaction),
         total_active_return |-> RatAdd(t.total_allocation,
                                     RatAdd(t.total_selection, t.total_interaction)),
         top_contributors    |-> Label(HeadRows(sorted_contrib, HEAD_N)),
         top_detractors      |-> Label(TailRows(sorted_contrib, HEAD_N))]

\* pydantic on List[Dict] (schema.py 98-99): every element must be a dict
IsListOfDict(l) == \A k \in 1..Len(l) : l[k].type = "dict"
ReportValidates(args) ==
    IsListOfDict(args.top_contributors) /\ IsListOfDict(args.top_detractors)

NoAttrIn   == [tickers |-> <<>>, profile |-> <<>>, sector_map |-> <<>>]
NoAttrCalc == [df |-> <<>>, totals |-> NoValue, sorted_contrib |-> <<>>,
               args |-> NoValue]
NoAttrOut  == [kind |-> "none", exc |-> None, report |-> NoValue]

AttrInit ==
    /\ attr_pc = "idle"
    /\ attr_in = NoAttrIn
    /\ attr_calc = NoAttrCalc
    /\ attr_out = NoAttrOut

\* the call up to the column sums of attr_df (lines 37-87).  With no ticker
\* at all attribution_rows is empty, attr_df has no columns and
\* attr_df['allocation'] raises KeyError (line 85)
AttrCall ==
    /\ attr_pc = "idle"
    /\ \E n \in 0..Len(AttrTickers) :
       \E profile \in {f \in [1..n -> AttrProfiles] :
                            \A i \in 1..n : f[i] \in AttrProfilesAt(i)} :
          LET in == [tickers    |-> SubSeq(AttrTickers, 1, n),
                     profile    |-> profile,
                     sector_map |-> AttrSectorMap]
              df == DataFrame(in)
          IN  /\ attr_in' = in
              /\ IF n = 0
                   THEN /\ attr_calc' = NoAttrCalc
                        /\ attr_out' = [kind |-> "raised", exc |-> "KeyError",
                                        report |-> NoValue]
                        /\ attr_pc' = "done"
                   ELSE /\ attr_calc' = [df |-> df, totals |-> AttributionTotals(df),
                                         sorted_contrib |-> <<>>, args |-> NoValue]
                        /\ attr_out' = attr_out
                        /\ attr_pc' = "totals"
    /\ UNCHANGED notAttr

\* the ranking (lines 89-104).  The rows of df are in the iteration order of
\* the set of line 38, which is first observed by the sort
AttrRank ==
    /\ attr_pc = "totals"
    /\ \E rows \in RowOrders(Len(attr_calc.df)) :
          LET sorted_contrib == SortValues(attr_calc.df, rows)
          IN  attr_calc' = [attr_calc EXCEPT
                  !.sorted_contrib = sorted_contrib,
                  !.args = ReportArgs(attr_calc.df, attr_calc.totals,
                                      sorted_contrib)]
    /\ attr_pc' = "computed"
    /\ UNCHANGED <<attr_in, attr_out, notAttr>>

\* AttributionReport(...) (lines 106-113): the model is validated
AttrConstruct ==
    /\ attr_pc = "computed"
    /\ attr_out' = IF ReportValidates(attr_calc.args)
                   THEN [kind |-> "report", exc |-> None,
                         report |-> attr_calc.args]
                   ELSE [kind |-> "raised", exc |-> "ValidationError",
                         report |-> NoValue]
    /\ attr_pc' = "done"
    /\ UNCHANGED <<attr_in, attr_calc, notAttr>>

\* the caller has the outcome; the engine keeps no state between calls
AttrReturn ==
    /\ attr_pc = "done"
    /\ attr_pc' = "idle"
    /\ attr_in' = NoAttrIn
    /\ attr_calc' = NoAttrCalc
    /\ attr_out' = NoAttrOut
    /\ UNCHANGED notAttr

(***************************************************************************)
(* check_wash_sale_rule (tax_module.py 19-33).  Dates are day numbers.     *)
(***************************************************************************)
WASH_DAYS == 30    \* timedelta(days=30)

WashSymbols == {"AAPL", "MSFT"}
TxnTypes    == {"buy", "sell"}
SaleDates   == {100, 365}
\* the date of a transaction relative to the date of the sale
TxnOffsets  == {0 - 31, 0 - 30, 0 - 29, 0 - 1, 0, 1}

Transactions(D) ==
    [symbol : WashSymbols, type : TxnTypes, date : {D + o : o \in TxnOffsets}]

\* limit_date (line 26)
LimitDateShort(transaction_date) == transaction_date - (WASH_DAYS - 1)
LimitDate(transaction_date) == transaction_date - WASH_DAYS

\* the loop of lines 28-33 from transaction k on
RECURSIVE WashLoop(_, _, _, _)
WashLoop(symbol, transaction_date, recent_transactions, k) ==
    IF k > Len(recent_transactions) THEN FALSE
    ELSE LET txn == recent_transactions[k]
         IN  IF /\ txn.symbol = symbol
                /\ txn.type = "buy"
                /\ txn.date >= LimitDate(transaction_date)
                /\ txn.date <= transaction_date
             THEN TRUE
             ELSE WashLoop(symbol, transaction_date, recent_transactions, k + 1)

CheckWashSaleRule(symbol, transaction_date, recent_transactions) ==
    WashLoop(symbol, transaction_date, recent_transactions, 1)

NoWashIn  == [symbol |-> None, transaction_date |-> 0, recent_transactions |-> <<>>]
NoWashOut == None

WashInit ==
    /\ wash_pc = "idle"
    /\ wash_in = NoWashIn
    /\ wash_out = NoWashOut

WashCall ==
    /\ wash_pc = "idle"
    /\ \E D \in SaleDates :
       \E recent_transactions \in SeqsUpTo(Transactions(D), MaxTxns) :
          /\ wash_in' = [symbol |-> "AAPL", transaction_date |-> D,
                         recent_transactions |-> recent_transactions]
          /\ wash_out' = CheckWashSaleRule("AAPL", D, recent_transactions)
    /\ wash_pc' = "done"
    /\ UNCHANGED notWash

WashReturn ==
    /\ wash_pc = "done"
    /\ wash_pc' = "idle"
    /\ wash_in' = NoWashIn
    /\ wash_out' = NoWashOut
    /\ UNCHANGED notWash

(***************************************************************************)
(* find_proxy (tax_module.py 35-64)                                        *)
(***************************************************************************)
FALLBACK_PROXY == "SPY"

\* TickerData objects: a symbol with its sector
TickerData ==
    { [symbol |-> "AAPL", sector |-> "Technology"],
      [symbol |-> "MSFT", sector |-> "Technology"],
      [symbol |-> "NVDA", sector |-> "Technology"],
      [symbol |-> "XOM",  sector |-> "Energy"] }

\* correlations in tenths; the matrix is symmetric with a diagonal of 1.0
CorrLevels == {5, 9}
CorrPairs  == { {"AAPL", "MSFT"}, {"AAPL", "NVDA"}, {"MSFT", "NVDA"} }
CorrTables == [CorrPairs -> CorrLevels]

\* the labels of a correlation matrix: its index in order, its columns
CorrIndexes ==
    { <<>>, <<"AAPL">>, <<"MSFT", "NVDA">>,
      <<"AAPL", "MSFT">>, <<"MSFT", "AAPL">>,
      <<"AAPL", "MSFT", "NVDA">>, <<"AAPL", "NVDA", "MSFT">>,
      <<"NVDA", "MSFT", "AAPL">> }

SeqRange(s) == {s[k] : k \in DOMAIN s}

\* a DataFrame: index, columns, and the value at (row label, column label)
CorrelationMatrices ==
    { [index |-> idx, columns |-> cols, table |-> t] :
         idx \in CorrIndexes,
         cols \in {{}, {"MSFT", "NVDA"}, {"AAPL", "MSFT", "NVDA"}},
         t \in CorrTables }

CorrAt(m, row, col) == IF row = col THEN 10 ELSE m.table[{row, col}]

\* DataFrame.empty
MatrixEmpty(m) == Len(m.index) = 0 \/ m.columns = {}

\* [t.symbol for t in candidate_tickers if ...] (line 43)
RECURSIVE SectorPeers(_, _, _)
SectorPeers(loser_ticker, sector, candidate_tickers) ==
    IF candidate_tickers = <<>> THEN <<>>
    ELSE LET t    == Head(candidate_tickers)
             rest == SectorPeers(loser_ticker, sector, Tail(candidate_tickers))
         IN  IF t.sector = sector /\ t.symbol # loser_ticker
             THEN <<t.symbol>> \o rest
             ELSE rest

\* corrs[corrs.index.isin(sector_peers)] (line 54): the rows of the column,
\* in the order of the index of the matrix
RECURSIVE PeerCorrs(_, _, _, _)
PeerCorrs(m, loser_ticker, sector_peers, k) ==
    IF k > Len(m.index) THEN <<>>
    ELSE LET rest == PeerCorrs(m, loser_ticker, sector_peers, k + 1)
         IN  IF m.index[k] \in SeqRange(sector_peers)
             THEN <<[label |-> m.index[k],
                     corr  |-> CorrAt(m, m.index[k], loser_ticker)]>> \o rest
             ELSE rest

\* Series.idxmax(): the label of the first row that holds the maximum
IdxMaxLast(peer_corrs) ==
    LET best == CHOOSE k \in DOMAIN peer_corrs :
                   /\ \A j \in DOMAIN peer_corrs : peer_corrs[j].corr <= peer_corrs[k].corr
                   /\ \A j \in DOMAIN peer_corrs :
                         peer_corrs[j].corr = peer_corrs[k].corr => j <= k
    IN  peer_corrs[best].label
IdxMax(peer_corrs) ==
    LET best == CHOOSE k \in DOMAIN peer_corrs :
                   /\ \A j \in DOMAIN peer_corrs : peer_corrs[j].corr <= peer_corrs[k].corr
                   /\ \A j \in DOMAIN peer_corrs :
                         peer_corrs[j].corr = peer_corrs[k].corr => k <= j
    IN  peer_corrs[best].label

\* lines 48-61: the proxy found by correlation, or None when the lookup
\* gives nothing (no matrix, ticker not in the index, no peer in the index)
\* or raises (the ticker is in the index but is not a column: KeyError,
\* caught at line 60)
CorrelationLookup(loser_ticker, sector_peers, correlation_matrix) ==
    IF correlation_matrix = NoValue THEN None
    ELSE IF MatrixEmpty(correlation_matrix) THEN None
    ELSE IF loser_ticker \notin SeqRange(correlation_matrix.index) THEN None
    ELSE IF loser_ticker \notin correlation_matrix.columns THEN None
    ELSE LET peer_corrs == PeerCorrs(correlation_matrix, loser_ticker,
                                     sector_peers, 1)
         IN  IF peer_corrs = <<>> THEN None ELSE IdxMax(peer_corrs)

FindProxy(loser_ticker, sector, candidate_tickers, correlation_matrix) ==
    LET sector_peers == SectorPeers(loser_ticker, sector, candidate_tickers)
        best_proxy   == CorrelationLookup(loser_ticker, sector_peers,
                                          correlation_matrix)
    IN  IF sector_peers = <<>> THEN FALLBACK_PROXY
        ELSE IF best_proxy # None THEN best_proxy
        ELSE sector_peers[1]

NoProxyIn == [loser_ticker |-> None, sector |-> None,
              candidate_tickers |-> <<>>, correlation_matrix |-> NoValue]

ProxyInit ==
    /\ proxy_pc = "idle"
    /\ proxy_in = NoProxyIn
    /\ proxy_out = None

ProxyCall ==
    /\ proxy_pc = "idle"
    /\ \E sector \in {"Technology", "Unknown"} :
       \E candidate_tickers \in SeqsUpTo(TickerData, MaxCandidates) :
       \E correlation_matrix \in CorrelationMatrices \cup {NoValue} :
          /\ proxy_in' = [loser_ticker |-> "AAPL", sector |-> sector,
                          candidate_tickers |-> candidate_tickers,
                          correlation_matrix |-> correlation_matrix]
          /\ proxy_out' = FindProxy("AAPL", sector, candidate_tickers,
                                    correlation_matrix)
    /\ proxy_pc' = "done"
    /\ UNCHANGED notProxy

ProxyReturn ==
    /\ proxy_pc = "done"
    /\ proxy_pc' = "idle"
    /\ proxy_in' = NoProxyIn
    /\ proxy_out' = None
    /\ UNCHANGED notProxy

(***************************************************************************)
(* harvest_losses (tax_module.py 66-99) and TaxLot (schema.py 58-79).      *)
(* Prices are whole numbers, so the quotient of loss_percentage is exact.  *)
(***************************************************************************)
LOSS_THRESHOLD == <<0 - 1, 10>>    \* -0.10

LotSymbols    == {"AAPL", "MSFT"}
LotQuantities == {10, 20}
\* (cost_basis_per_share, current_price): losses of 11, 10 and 9 percent,
\* and a lot without cost basis
LotPrices     == {<<100, 89>>, <<100, 90>>, <<100, 91>>, <<0, 90>>}

\* a lot of the fund that find_proxy falls back to, 11 percent under water
FallbackLot ==
    [symbol |-> FALLBACK_PROXY, purchase_date |-> 1, quantity |-> 10,
     cost_basis_per_share |-> 100, current_price |-> 89]

TaxLots ==
    { [symbol |-> sym, purchase_date |-> 1, quantity |-> q,
       cost_basis_per_share |-> pr[1], current_price |-> pr[2]] :
         sym \in LotSymbols, q \in LotQuantities, pr \in LotPrices }
    \cup {FallbackLot}

\* market_prices: a dict from symbols to prices
MarketPrices ==
    { <<>>,
      [sym \in {"AAPL"} |-> 90],
      [sym \in {"AAPL"} |-> 91],
      [sym \in {"AAPL", "MSFT"} |-> IF sym = "AAPL" THEN 89 ELSE 90] }

HarvestCandidates ==
    { <<>>,
      << [symbol |-> "AAPL", sector |-> "Technology"],
         [symbol |-> "MSFT", sector |-> "Technology"],
         [symbol |-> "NVDA", sector |-> "Technology"] >> }

HarvestMatrices ==
    { NoValue,
      [index |-> <<"AAPL", "NVDA", "MSFT">>,
       columns |-> {"AAPL", "MSFT", "NVDA"},
       table |-> [pr \in CorrPairs |-> IF pr = {"AAPL", "NVDA"} THEN 9 ELSE 5]] }

\* TaxLot.unrealized_pl (schema.py 68-70)
UnrealizedPl(lot) ==
    (lot.current_price - lot.cost_basis_per_share) * lot.quantity

\* TaxLot.loss_percentage (schema.py 76-79)
LossPercentage(lot) ==
    IF lot.cost_basis_per_share = 0 THEN RatZero
    ELSE <<lot.current_price - lot.cost_basis_per_share,
           lot.cost_basis_per_share>>

\* lines 77-78: the lot object gets the market price of its symbol
RefreshOrZero(lot, market_prices) ==
    [lot EXCEPT !.current_price =
        IF lot.symbol \in DOMAIN market_prices
        THEN market_prices[lot.symbol] ELSE 0]
Refresh(lot, market_prices) ==
    IF lot.symbol \in DOMAIN market_prices
    THEN [lot EXCEPT !.current_price = market_prices[lot.symbol]]
    ELSE lot

\* line 81
QualifiesStrict(lot) ==
    RatLt(LossPercentage(lot), LOSS_THRESHOLD)
Qualifies(lot) ==
    RatLeq(LossPercentage(lot), LOSS_THRESHOLD)

\* lines 84-85: the sector of the first candidate with the symbol of the lot
RECURSIVE SectorOf(_, _)
SectorOf(symbol, candidate_tickers) ==
    IF candidate_tickers = <<>> THEN "Unknown"
    ELSE IF Head(candidate_tickers).symbol = symbol
         THEN Head(candidate_tickers).sector
         ELSE SectorOf(symbol, Tail(candidate_tickers))

\* lines 87-95.  The reason text of the opportunity is not modelled.
HarvestOpportunity(lot, candidate_tickers, correlation_matrix) ==
    LET sector == SectorOf(lot.symbol, candidate_tickers)
        pl     == UnrealizedPl(lot)
    IN  [sell_ticker      |-> lot.symbol,
         buy_proxy_ticker |-> FindProxy(lot.symbol, sector, candidate_tickers,
                                        correlation_matrix),
         quantity         |-> lot.quantity,
         estimated_loss_harvested |-> IF pl < 0 THEN 0 - pl ELSE pl]

\* line 96
AppendMerged(opportunities, opp) ==
    IF \E k \in DOMAIN opportunities :
          opportunities[k].sell_ticker = opp.sell_ticker
    THEN opportunities
    ELSE Append(opportunities, opp)
AppendOpportunity(opportunities, opp) == Append(opportunities, opp)

\* the loop of lines 75-96 from lot k on: the lots as the loop leaves them
\* and the opportunities collected
RECURSIVE HarvestLoop(_, _, _, _)
HarvestLoop(heap, k, lots, opportunities) ==
    IF k > Len(heap.portfolio_lots)
    THEN [portfolio_lots |-> lots, opportunities |-> opportunities]
    ELSE LET lot == Refresh(heap.portfolio_lots[k], heap.market_prices)
         IN  HarvestLoop(heap, k + 1, Append(lots, lot),
                IF Qualifies(lot)
                THEN AppendOpportunity(opportunities,
                        HarvestOpportunity(lot, heap.candidate_tickers,
                                           heap.correlation_matrix))
                ELSE opportunities)

NoTaxArgs == [portfolio_lots |-> <<>>, market_prices |-> <<>>,
              candidate_tickers |-> <<>>, correlation_matrix |-> NoValue]

TaxInit ==
    /\ tax_pc = "idle"
    /\ tax_in = NoTaxArgs
    /\ tax_heap = NoTaxArgs
    /\ tax_out = NoValue

\* the caller builds the arguments and makes the call
TaxCall ==
    /\ tax_pc = "idle"
    /\ \E portfolio_lots \in SeqsUpTo(TaxLots, MaxLots) :
       \E market_prices \in MarketPrices :
       \E candidate_tickers \in HarvestCandidates :
       \E correlation_matrix \in HarvestMatrices :
          LET args == [portfolio_lots |-> portfolio_lots,
                       market_prices |-> market_prices,
                       candidate_tickers |-> candidate_tickers,
                       correlation_matrix |-> correlation_matrix]
          IN  tax_in' = args /\ tax_heap' = args
    /\ tax_pc' = "called"
    /\ UNCHANGED <<tax_out, notTax>>

\* the body of harvest_losses (lines 73-99)
TaxHarvest ==
    /\ tax_pc = "called"
    /\ LET r == HarvestLoop(tax_heap, 1, <<>>, <<>>)
       IN  /\ tax_heap' = [tax_heap EXCEPT !.portfolio_lots = r.portfolio_lots]
           /\ tax_out' = r.opportunities
    /\ tax_pc' = "done"
    /\ UNCHANGED <<tax_in, notTax>>

TaxReturn ==
    /\ tax_pc = "done"
    /\ tax_pc' = "idle"
    /\ tax_in' = NoTaxArgs
    /\ tax_heap' = NoTaxArgs
    /\ tax_out' = NoValue
    /\ UNCHANGED notTax

(***************************************************************************)
(* The sector cache shared by the requests (data_manager.py 14-95,         *)
(* 151-152).  POST /optimize is a plain def, so each request runs          *)
(* run_pipeline in a thread of its own on the one system of app.py 10;     *)
(* a step of a thread is one dict assignment or one file write.            *)
(***************************************************************************)
ShareRequests == {1, 2}

\* _get_fallback_tickers: entries of fallback_map (lines 85-92)
FallbackItems ==
    << [ticker |-> "AAPL", sector |-> "Information Technology"],
       [ticker |-> "XOM",  sector |-> "Energy"] >>

\* what a request can find as sp500_universe.json: no file (NoValue), or a
\* list of items with 'ticker' and 'sector'
UniverseFiles ==
    { NoValue,
      << [ticker |-> "AAPL", sector |-> "Technology"] >>,
      << [ticker |-> "AAPL", sector |-> "Information Technology"],
         [ticker |-> "XOM",  sector |-> "Energy"] >> }

NoShareReq == [pc |-> "idle", items |-> <<>>, i |-> 0, from_file |-> FALSE,
               view |-> <<>>]

\* after SectorCache.__init__ with no cache file on disk (lines 19-31)
ShareInit ==
    /\ share_map = <<>>
    /\ share_file = [exists |-> FALSE, content |-> <<>>]
    /\ share_req = [r \in ShareRequests |-> NoShareReq]
    /\ share_writers = {}

\* SectorCache.update_sector (lines 41-42)
UpdateSector(sector_map, ticker, sector) == (ticker :> sector) @@ sector_map

\* run_pipeline enters fetch_sp500_tickers: the universe file is read, or
\* the fallback map is taken (lines 57-66, 79-85)
ShareReceive(r) ==
    /\ share_req[r].pc = "idle"
    /\ \E universe_data \in UniverseFiles :
          share_req' = [share_req EXCEPT ![r] =
              [pc |-> "updating",
               items |-> IF universe_data = NoValue THEN FallbackItems
                         ELSE universe_data,
               i |-> 1,
               from_file |-> universe_data # NoValue,
               view |-> <<>>]]
    /\ UNCHANGED <<share_map, share_file, share_writers, notShare>>

\* one turn of the loops of lines 69-73 and 93-94
ShareUpdate(r) ==
    /\ share_req[r].pc = "updating"
    /\ share_req[r].i <= Len(share_req[r].items)
    /\ LET item == share_req[r].items[share_req[r].i]
       IN  share_map' = UpdateSector(share_map, item.ticker, item.sector)
    /\ share_req' = [share_req EXCEPT ![r].i = @ + 1]
    /\ share_writers' = share_writers \cup {r}
    /\ UNCHANGED <<share_file, notShare>>

\* after the loop: save_cache when the universe came from the file (line 75)
ShareFetched(r) ==
    /\ share_req[r].pc = "updating"
    /\ share_req[r].i > Len(share_req[r].items)
    /\ IF share_req[r].from_file
       THEN /\ share_file' = [exists |-> TRUE, content |-> share_map]
            /\ share_writers' = share_writers \cup {r}
       ELSE UNCHANGED <<share_file, share_writers>>
    /\ share_req' = [share_req EXCEPT ![r].pc = "fetched"]
    /\ UNCHANGED <<share_map, notShare>>

\* the request ends before the optimization: no market data, or the
\* covariance estimation raised (main.py 37-47)
ShareAbort(r) ==
    /\ share_req[r].pc = "fetched"
    /\ share_req' = [share_req EXCEPT ![r] = NoShareReq]
    /\ UNCHANGED <<share_map, share_file, share_writers, notShare>>

\* sector_map = self.data_engine.get_sector_map() (main.py 96): the dict
\* itself, not a copy
ShareGetMap(r) ==
    /\ share_req[r].pc = "fetched"
    /\ share_req' = [share_req EXCEPT ![r].pc = "mapped", ![r].view = share_map]
    /\ UNCHANGED <<share_map, share_file, share_writers, notShare>>

\* the optimizer is called with the map (main.py 98-106) and the request
\* is answered (app.py 34-47)
ShareOptimize(r) ==
    /\ share_req[r].pc = "mapped"
    /\ share_req' = [share_req EXCEPT ![r] = NoShareReq]
    /\ UNCHANGED <<share_map, share_file, share_writers, notShare>>

(***************************************************************************)
(* optimize_portfolio: the solve step and the time it takes                *)
(* (optimizer.py 116-130).  prob.solve runs inside the solver until the    *)
(* solver hands back a status or raises; the clock counts the time spent   *)
(* there.  The only thing the code can do to bound that time is to pass a  *)
(* limit among the keyword arguments of prob.solve.                        *)
(***************************************************************************)
\* prob.solve(verbose=True): the keyword arguments of the call (line 122)
SolveKwargs == [verbose |-> TRUE]

\* the option that carries a time limit to the solver, and its value
HasTimeLimit(opts) == "time_limit" \in DOMAIN opts
TimeLimit(opts)    == IF HasTimeLimit(opts) THEN opts["time_limit"] ELSE 0

\* every status prob.solve can hand back
SolverStatuses == FailedStatuses \cup SolvedStatuses

NoSolveOut == [kind |-> "none", site |-> None, exc |-> None, status |-> None,
               ticks |-> 0]

SolveInit ==
    /\ solve_pc = "idle"
    /\ solve_opts = <<>>
    /\ solve_clock = 0
    /\ solve_status = None
    /\ solve_out = NoSolveOut

\* prob = cp.Problem(...); prob.solve(verbose=True) is entered (lines 117-122)
SolveCall ==
    /\ solve_pc = "idle"
    /\ solve_pc' = "running"
    /\ solve_opts' = SolveKwargs
    /\ solve_clock' = 0
    /\ UNCHANGED <<solve_status, solve_out, notSolve>>

\* the solver is still iterating; a solver that was given a limit stops
\* with user_limit when the limit is reached
SolveTick ==
    /\ solve_pc = "running"
    /\ solve_clock < MaxTicks
    /\ solve_clock' = solve_clock + 1
    /\ IF HasTimeLimit(solve_opts) /\ solve_clock + 1 >= TimeLimit(solve_opts)
         THEN solve_pc' = "returned" /\ solve_status' = "user_limit"
         ELSE UNCHANGED <<solve_pc, solve_status>>
    /\ UNCHANGED <<solve_opts, solve_out, notSolve>>

\* prob.solve returns with a status
SolveFinish ==
    /\ solve_pc = "running"
    /\ solve_pc' = "returned"
    /\ solve_status' \in SolverStatuses
    /\ UNCHANGED <<solve_opts, solve_clock, solve_out, notSolve>>

\* prob.solve raises; the handler logs and re-raises (lines 123-125)
SolveRaise ==
    /\ solve_pc = "running"
    /\ solve_pc' = "done"
    /\ solve_out' = [kind |-> "raise", site |-> "solver_raised",
                     exc |-> ExcAt("solver_raised"), status |-> "solver_error",
                     ticks |-> solve_clock]
    /\ UNCHANGED <<solve_opts, solve_clock, solve_status, notSolve>>

\* CHECK SOLVER STATUS (lines 128-130)
SolveCheck ==
    /\ solve_pc = "returned"
    /\ solve_pc' = "done"
    /\ solve_out' =
         IF ~StatusAccepted(solve_status)
           THEN [kind |-> "raise", site |-> "status", exc |-> ExcAt("status"),
                 status |-> solve_status, ticks |-> solve_clock]
           ELSE [kind |-> "passed", site |-> None, exc |-> None,
                 status |-> solve_status, ticks |-> solve_clock]
    /\ UNCHANGED <<solve_opts, solve_clock, solve_status, notSolve>>

\* the call goes on; nothing of the solve is kept
SolveReturn ==
    /\ solve_pc = "done"
    /\ solve_pc' = "idle"
    /\ solve_opts' = <<>>
    /\ solve_clock' = 0
    /\ solve_status' = None
    /\ solve_out' = NoSolveOut
    /\ UNCHANGED notSolve

(***************************************************************************)
(* Specifications                                                          *)
(***************************************************************************)
Init == OptInit /\ CovInit /\ PipeInit /\ CapInit /\ AttrInit /\ WashInit
           /\ ProxyInit /\ TaxInit /\ ShareInit /\ SolveInit

\* the cap computation over universe sizes and exclusion counts
CapNext == CapCompute \/ CapReturn
SpecCap == Init /\ [][CapNext]_vars

\* calls of optimize_portfolio
OptNext == OptCallDirect \/ OptCallPipeline \/ OptSolve \/ OptFinish \/ OptReturn
SpecOpt == Init /\ [][OptNext]_vars

\* calls of compute_covariance_matrix
CovNext == CovCall \/ CovReturn
SpecCov == Init /\ [][CovNext]_vars

\* requests to POST /optimize
PipeNext == ApiReceive \/ PipeFetchTickers \/ PipeFetchData \/ PipeCovariance
               \/ PipeOptimize \/ ApiRespond \/ ApiDone
SpecPipe == Init /\ [][PipeNext]_vars

\* calls of generate_attribution_report
AttrNext == AttrCall \/ AttrRank \/ AttrConstruct \/ AttrReturn
SpecAttr == Init /\ [][AttrNext]_vars

\* calls of check_wash_sale_rule
WashNext == WashCall \/ WashReturn
SpecWash == Init /\ [][WashNext]_vars

\* calls of find_proxy
ProxyNext == ProxyCall \/ ProxyReturn
SpecProxy == Init /\ [][ProxyNext]_vars

\* calls of harvest_losses
TaxNext == TaxCall \/ TaxHarvest \/ TaxReturn
SpecTax == Init /\ [][TaxNext]_vars

\* concurrent requests on the shared sector cache
ShareNext ==
    \E r \in ShareRequests :
        \/ ShareReceive(r) \/ ShareUpdate(r) \/ ShareFetched(r)
        \/ ShareAbort(r) \/ ShareGetMap(r) \/ ShareOptimize(r)
SpecShare == Init /\ [][ShareNext]_vars

\* the solve step of optimize_portfolio, with the time it takes
SolveNext == SolveCall \/ SolveTick \/ SolveFinish \/ SolveRaise \/ SolveCheck
                \/ SolveReturn
SpecSolve == Init /\ [][SolveNext]_vars

(***************************************************************************)
(* Properties of optimize_portfolio, checked under SpecOpt                 *)
(***************************************************************************)
Abs(x) == IF x < 0 THEN 0 - x ELSE x

\* the sum of the values of a weights mapping
SumWeights(weights) ==
    LET RECURSIVE S(_)
        S(D) == IF D = {} THEN 0
                ELSE LET t == CHOOSE x \in D : TRUE IN weights[t] + S(D \ {t})
    IN  S(DOMAIN weights)

OptReturned == opt_pc = "done" /\ opt_out.kind = "result"

\* the exclusion rule as the specification words it
IsExcludedTicker(t) ==
    LET sector == IF t \in DOMAIN SectorMap THEN SectorMap[t] ELSE "Unknown"
        xs     == opt_args.excluded_sectors
    IN  \/ \E k \in DOMAIN xs :
             \/ Lower(xs[k]) = Lower(sector)
             \/ (xs[k] = "Technology" /\ sector = "Information Technology")
        \/ t \in opt_args.excluded_tickers

UniverseSet == {opt_args.tickers[i] : i \in DOMAIN opt_args.tickers}

\* C1: in every returned result, every excluded ticker of the universe
\* (sector equal ignoring case, the Technology alias, or listed by ticker)
\* is absent from the weights, that is, has weight 0.
C1_ExcludedHaveNoWeight ==
    OptReturned =>
        \A t \in UniverseSet : IsExcludedTicker(t) => t \notin DOMAIN opt_out.weights

\* a result for a universe with AAPL excluded through the alias, XOM through
\* the case-insensitive match
C1_Witness ==
    /\ OptReturned
    /\ opt_args.n = 3
    /\ opt_args.excluded_sectors = <<"Technology", "energy">>
    /\ DOMAIN opt_out.weights = {"JPM"}

WellFormedCall == BindsOk(opt_args.kwargs) /\ opt_args.cov.dim = opt_args.n

AllExcluded == opt_pc # "idle" /\ \A t \in UniverseSet : IsExcludedTicker(t)

\* C2: when every ticker of the universe is excluded, the call ends with the
\* "All assets excluded" error, the solver is never invoked and no result is
\* returned.
C2_AllExcludedFailsBeforeSolve ==
    AllExcluded =>
        /\ opt_pc = "done"
        /\ opt_out.kind = "raise"
        /\ opt_solves = 0
        /\ (WellFormedCall => opt_out.site = "all_excluded")

\* all three tickers excluded, one of them twice (by sector and by ticker)
C2_Witness ==
    /\ AllExcluded
    /\ opt_args.n = 3
    /\ opt_args.excluded_sectors = <<"Technology", "UNKNOWN">>
    /\ opt_args.excluded_tickers = {"AAPL", "XOM"}
    /\ opt_out.site = "all_excluded"

\* C6: every returned weight is >= 0 and <= the cap used for the solve.
C6_WeightsWithinBounds ==
    OptReturned =>
        \A t \in DOMAIN opt_out.weights :
            /\ opt_out.weights[t] >= 0
            /\ opt_out.weights[t] * opt_cap[2] <= opt_cap[1] * ONE

\* a result whose first weight sits on the cap while the benchmark asks for more
C6_Witness ==
    /\ OptReturned
    /\ opt_args.n = 3
    /\ opt_args.w_b[1] * opt_cap[2] > opt_cap[1] * ONE
    /\ "AAPL" \in DOMAIN opt_out.weights
    /\ opt_out.weights["AAPL"] * opt_cap[2] = opt_cap[1] * ONE

\* C7: a result is returned only after one solve that ended optimal or
\* optimal_inaccurate with a weight vector; every other end of the solve is
\* a raised failure carrying the status, after exactly one solve, and no
\* result is empty or all zero.
C7_ResultOnlyWhenSolved ==
    /\ opt_solves <= 1
    /\ OptReturned =>
         /\ opt_solves = 1
         /\ opt_prob.status \in {"optimal", "optimal_inaccurate"}
         /\ opt_prob.w # NoValue
         /\ \E t \in DOMAIN opt_out.weights : opt_out.weights[t] > 0
    /\ (opt_pc = "done" /\ opt_solves = 1
          /\ ~(opt_prob.status \in {"optimal", "optimal_inaccurate"}
                 /\ opt_prob.w # NoValue)) =>
         /\ opt_out.kind = "raise"
         /\ opt_out.weights = <<>>
         /\ opt_out.status =
              IF opt_prob.status = None THEN "solver_error"
              ELSE IF opt_prob.status \in {"optimal", "optimal_inaccurate"}
                   THEN "missing_weights"
              ELSE opt_prob.status

\* the solve ended infeasible and the call raised with that status
C7_Witness ==
    /\ opt_pc = "done"
    /\ opt_solves = 1
    /\ opt_prob.status = "infeasible"
    /\ opt_out.kind = "raise"
    /\ opt_out.status = "infeasible"

\* n_active as the specification words it: universe size minus the number
\* of excluded tickers, floored at 1
ClaimedNActive ==
    LET k == opt_args.n - Cardinality({t \in UniverseSet : IsExcludedTicker(t)})
    IN  IF k < 1 THEN 1 ELSE k

RatEq(a, b) == a[1] * b[2] = b[1] * a[2]

\* MAX_WEIGHT_LIMIT has been computed for the call in progress
CapInUse == opt_pc \in {"ready", "solved"} \/ OptReturned

\* C3: the cap used by the optimizer is the explicit max_weight whenever one
\* is supplied, otherwise max(0.20, 1.5 / n_active); a call that carries
\* max_weight, as the one of run_pipeline, is optimized under that cap.
C3_CapFollowsRequest ==
    opt_pc # "idle" =>
        IF "max_weight" \in opt_args.kwargs /\ opt_args.max_weight # NoValue
          THEN /\ opt_out.site # "bind"
               /\ (CapInUse => RatEq(opt_cap, opt_args.max_weight))
          ELSE CapInUse =>
                 RatEq(opt_cap, RatMax(<<1, 5>>, <<3, 2 * ClaimedNActive>>))

\* C5 as stated: the returned weights sum to 1 within 1e-6 (1/50 of a unit)
C5_SumIsOne ==
    OptReturned => 50 * Abs(SumWeights(opt_out.weights) - ONE) <= 1

\* the indices of the universe whose ticker is absent from the result
DroppedIndices ==
    {i \in DOMAIN opt_args.tickers : opt_args.tickers[i] \notin DOMAIN opt_out.weights}

\* C5 (amended): the solver's weights sum to 1, the returned weights sum to
\* 1 minus the solver weights that the cleanup and the validator removed,
\* which is at most 1 and at least 1 - 1e-4 * (number of tickers removed).
C5_SumShortByDropped ==
    OptReturned =>
        LET sum == SumWeights(opt_out.weights)
        IN  /\ SumSeq(opt_prob.w) = ONE
            /\ sum = ONE - SumSeq([k \in 1..Len(opt_prob.w) |->
                                     IF k \in DroppedIndices THEN opt_prob.w[k] ELSE 0])
            /\ sum <= ONE
            /\ ONE - sum <= EPS * Cardinality(DroppedIndices)

\* a result that lost a positive solver weight below 1e-4
C5_Witness ==
    /\ OptReturned
    /\ opt_prob.status = "optimal"
    /\ \E i \in DroppedIndices : opt_prob.w[i] = 1
    /\ SumWeights(opt_out.weights) = ONE - 1

\* the error kinds of the taxonomy, by raise site
TaxonomyKind(site) ==
    CASE site = "all_excluded" -> "InfeasibleError"
      [] site \in {"solver_raised", "status", "no_weights"} -> "SolverError"
      [] site \in {"empty_returns", "fit_failed"} -> "DataError"
      [] OTHER -> "Other"

TaxonomySites ==
    {"all_excluded", "solver_raised", "status", "no_weights",
     "empty_returns", "fit_failed"}

\* C8: a failure reaches the caller with a kind that tells DataError,
\* InfeasibleError, SolverError and ConfigError apart: the exception type of
\* a failure is used by no raise site of another kind.
C8_KindsDistinguishable ==
    (opt_pc = "done" /\ opt_out.kind = "raise" /\ opt_out.site \in TaxonomySites) =>
        \A other \in TaxonomySites :
            TaxonomyKind(other) # TaxonomyKind(opt_out.site)
                => ExcAt(other) # opt_out.exc

(***************************************************************************)
(* Properties of the cap computation, checked under SpecCap                *)
(***************************************************************************)
\* C4: with n_active = n_assets - n_excluded >= 1 the cap satisfies
\* n_active * cap >= 1, and for n_active = 3 the cap is at least 1/3.
C4_CapCoversActive ==
    cap_pc = "done" =>
        LET n_active == cap_in.n_assets - cap_in.n_excluded
        IN  n_active >= 1 =>
              /\ n_active * cap_out.limit[1] >= cap_out.limit[2]
              /\ (n_active = 3 => 3 * cap_out.limit[1] >= cap_out.limit[2])

\* three active assets out of five: the cap is 1.5 / 3
C4_Witness ==
    /\ cap_pc = "done"
    /\ cap_in.n_assets = 5
    /\ cap_in.n_excluded = 2
    /\ cap_out.limit[1] * 2 = cap_out.limit[2]

(***************************************************************************)
(* Properties of POST /optimize, checked under SpecPipe                    *)
(***************************************************************************)
AllStages ==
    <<"universe", "data", "covariance", "optimization", "attribution", "narrative">>

NarrativeFailures ==
    {"Error generating commentary.", "AI Commentary Unavailable."}

AttrComputed == attr_pc \in {"computed", "done"} /\ attr_out.exc # "KeyError"

\* sum_i w_p(i)*r(i) - sum_i w_b(i)*r(i)
ActiveReturn(df) ==
    RatSub(RatSum([i \in DOMAIN df |-> RatMul(df[i].wp, df[i].ret)], DOMAIN df),
           RatSum([i \in DOMAIN df |-> RatMul(df[i].wb, df[i].ret)], DOMAIN df))

\* C11: attribution additivity: the active return of the inputs,
\* sum w_p*r - sum w_b*r, equals allocation_effect + selection_effect of
\* the report, for all inputs, those whose weight sums differ included.
C11_Additivity ==
    AttrComputed =>
        RatEq(ActiveReturn(attr_calc.df),
              RatAdd(attr_calc.args.allocation_effect,
                     attr_calc.args.selection_effect))

RangeOf(s) == {s[k] : k \in DOMAIN s}

\* row i is among the HEAD_N lowest contributions however ties are ordered
AmongLowest(df, i) ==
    Cardinality({j \in DOMAIN df \ {i} :
                    RatLeq(df[j].contribution, df[i].contribution)}) < HEAD_N

\* C12: sign convention: a ticker with zero portfolio weight, positive
\* benchmark weight and positive return has a negative contribution, is in
\* top_detractors when it is among the 5 lowest contributions, and is never
\* in top_contributors, whatever the size of the universe.
C12_SignConvention ==
    AttrComputed =>
        \A i \in DOMAIN attr_calc.df :
            LET row == attr_calc.df[i]
            IN  (row.wp[1] = 0 /\ row.wb[1] > 0 /\ row.ret[1] > 0) =>
                   /\ RatLt(row.contribution, RatZero)
                   /\ AmongLowest(attr_calc.df, i) =>
                         Str(row.ticker) \in RangeOf(attr_calc.args.top_detractors)
                   /\ Str(row.ticker) \notin RangeOf(attr_calc.args.top_contributors)

\* the record the ranked lists are read for (debug_attribution_logic.py 49-62)
EntryOf(row) ==
    [Ticker              |-> row.ticker,
     Sector              |-> row.sector,
     Status              |-> IF row.wp[1] = 0 THEN "Excluded" ELSE "Held",
     Active_Weight       |-> row.active_weight,
     Active_Contribution |-> row.contribution]

IsEntryOf(e, df) ==
    /\ e.type = "dict"
    /\ \E i \in DOMAIN df : e.value = EntryOf(df[i])

\* C13: every entry of top_contributors and top_detractors is a record with
\* the ticker, its sector, its held/excluded status, its active weight and
\* its active contribution, consistent with the inputs.
C13_EntriesAreRecords ==
    AttrComputed =>
        /\ \A k \in DOMAIN attr_calc.args.top_contributors :
              IsEntryOf(attr_calc.args.top_contributors[k], attr_calc.df)
        /\ \A k \in DOMAIN attr_calc.args.top_detractors :
              IsEntryOf(attr_calc.args.top_detractors[k], attr_calc.df)

\* the ranking with ties in input order: the rows sorted from the order in
\* which the tickers were passed
RankedInInputOrder(df) == SortValues(df, [k \in 1..Len(df) |-> k])

TickersOf(df, s) == [k \in 1..Len(s) |-> Str(df[s[k]].ticker)]

\* C14: top_contributors is the first 5 and top_detractors the last 5 of
\* the tickers sorted by contribution descending, tickers of equal
\* contribution in input order, so the lists are a function of the inputs.
C14_RankedTiesInInputOrder ==
    AttrComputed =>
        LET ranked == RankedInInputOrder(attr_calc.df)
        IN  /\ attr_calc.args.top_contributors =
                  TickersOf(attr_calc.df, HeadRows(ranked, HEAD_N))
            /\ attr_calc.args.top_detractors =
                  TickersOf(attr_calc.df, TailRows(ranked, HEAD_N))

(***************************************************************************)
(* Properties of check_wash_sale_rule, checked under SpecWash              *)
(***************************************************************************)
\* the history holds a buy of the symbol dated from D - back to D inclusive
BuyWithin(in, back) ==
    \E k \in DOMAIN in.recent_transactions :
        LET txn == in.recent_transactions[k]
        IN  /\ txn.symbol = in.symbol
            /\ txn.type = "buy"
            /\ in.transaction_date - back <= txn.date
            /\ txn.date <= in.transaction_date

\* C15 as stated: the sale is reported unsafe exactly when the history holds
\* a buy of the symbol dated in [D-29, D]; a buy on D-30 never makes it
\* unsafe.
C15_UnsafeIffBuyWithin29 ==
    wash_pc = "done" => (wash_out = TRUE <=> BuyWithin(wash_in, 29))

\* C15 (amended): the sale is reported unsafe exactly when the history
\* holds a 'buy' of the symbol dated in [D-30, D] inclusive; buys before
\* D-30 or after D, buys of other symbols and non-buy transactions never
\* make it unsafe.
C15_UnsafeIffBuyWithin30 ==
    wash_pc = "done" => (wash_out = TRUE <=> BuyWithin(wash_in, 30))

\* the only buy of the symbol is dated D-30, next to a sell of the symbol on
\* D, and the sale was reported unsafe
C15_Witness ==
    /\ wash_pc = "done"
    /\ wash_in.recent_transactions =
          << [symbol |-> "AAPL", type |-> "sell", date |-> wash_in.transaction_date],
             [symbol |-> "AAPL", type |-> "buy",
              date |-> wash_in.transaction_date - 30] >>
    /\ wash_out = TRUE

(***************************************************************************)
(* Properties of harvest_losses, checked under SpecTax                     *)
(***************************************************************************)
TaxDone == tax_pc = "done"

\* the price of lot k after the refresh, from the arguments of the call
RefreshedPrice(k) ==
    LET lot == tax_in.portfolio_lots[k]
    IN  IF lot.symbol \in DOMAIN tax_in.market_prices
        THEN tax_in.market_prices[lot.symbol]
        ELSE lot.current_price

\* (current_price - cost_basis)/cost_basis <= -0.10 for lot k after the
\* refresh, a lot without cost basis having a loss fraction of 0
LossQualifies(k) ==
    LET cost == tax_in.portfolio_lots[k].cost_basis_per_share
    IN  /\ cost > 0
        /\ 10 * (RefreshedPrice(k) - cost) <= 0 - cost

QualifyingLots == {k \in DOMAIN tax_in.portfolio_lots : LossQualifies(k)}

RECURSIVE QualifyingInOrder(_)
QualifyingInOrder(k) ==
    IF k > Len(tax_in.portfolio_lots) THEN <<>>
    ELSE IF LossQualifies(k) THEN <<k>> \o QualifyingInOrder(k + 1)
         ELSE QualifyingInOrder(k + 1)

\* C18: the returned list holds one opportunity per qualifying lot, in the
\* order of the input lots, each with the symbol and the quantity of its
\* own lot; lots of one symbol are not merged.
C18_OnePerQualifyingLotInOrder ==
    TaxDone =>
        LET q == QualifyingInOrder(1)
        IN  /\ Len(tax_out) = Len(q)
            /\ \A j \in DOMAIN tax_out :
                  /\ tax_out[j].sell_ticker = tax_in.portfolio_lots[q[j]].symbol
                  /\ tax_out[j].quantity = tax_in.portfolio_lots[q[j]].quantity

\* two qualifying lots of one symbol gave two opportunities, each with the
\* quantity of its lot
C18_Witness ==
    /\ TaxDone
    /\ Len(tax_in.portfolio_lots) = 2
    /\ tax_in.portfolio_lots[1].symbol = tax_in.portfolio_lots[2].symbol
    /\ Len(tax_out) = 2
    /\ tax_out[1].quantity = 20
    /\ tax_out[2].quantity = 10

\* C19: the call changes nothing of its arguments but the current_price of
\* the lots whose symbol is a key of market_prices, which becomes the
\* market price; the other lots keep their price, and every other field,
\* the lot list, market_prices and candidate_tickers are as they were.
C19_OnlyCurrentPriceChanges ==
    TaxDone =>
        /\ tax_heap.market_prices = tax_in.market_prices
        /\ tax_heap.candidate_tickers = tax_in.candidate_tickers
        /\ tax_heap.correlation_matrix = tax_in.correlation_matrix
        /\ Len(tax_heap.portfolio_lots) = Len(tax_in.portfolio_lots)
        /\ \A k \in DOMAIN tax_in.portfolio_lots :
              tax_heap.portfolio_lots[k] =
                 [tax_in.portfolio_lots[k] EXCEPT !.current_price = RefreshedPrice(k)]

\* one lot took the market price, a lot of a symbol without market price
\* kept its own
C19_Witness ==
    /\ TaxDone
    /\ Len(tax_in.portfolio_lots) = 2
    /\ DOMAIN tax_in.market_prices = {"AAPL"}
    /\ tax_in.portfolio_lots[1].symbol = "AAPL"
    /\ tax_in.portfolio_lots[1].current_price = 91
    /\ tax_heap.portfolio_lots[1].current_price = 90
    /\ tax_in.portfolio_lots[2].symbol = "MSFT"
    /\ tax_heap.portfolio_lots[2].current_price = 89

(***************************************************************************)
(* Properties of find_proxy, checked under SpecProxy                       *)
(***************************************************************************)
ProxyDone == proxy_pc = "done"

\* the same-sector candidates other than the lot's own symbol, in input order
ProxyPeers ==
    SelectSeq(proxy_in.candidate_tickers,
              LAMBDA t : t.sector = proxy_in.sector
                           /\ t.symbol # proxy_in.loser_ticker)

MatrixSupplied == proxy_in.correlation_matrix # NoValue

MatrixHasTicker ==
    /\ MatrixSupplied
    /\ proxy_in.loser_ticker \in SeqRange(proxy_in.correlation_matrix.index)

\* the correlation of a symbol to the lot's ticker
CorrToLoser(sym) ==
    CorrAt(proxy_in.correlation_matrix, sym, proxy_in.loser_ticker)

\* the matrix has the column of the lot's ticker and a row for every peer
MatrixCoversPeers ==
    /\ MatrixHasTicker
    /\ proxy_in.loser_ticker \in proxy_in.correlation_matrix.columns
    /\ \A k \in DOMAIN ProxyPeers :
          ProxyPeers[k].symbol \in SeqRange(proxy_in.correlation_matrix.index)

\* C17 as stated: without a same-sector candidate the proxy is SPY; with a
\* matrix that contains the lot's ticker it is the candidate of maximum
\* correlation, ties broken by the candidates' input order; without such a
\* matrix it is the first same-sector candidate.
C17_TiesInCandidateOrder ==
    ProxyDone =>
        IF ProxyPeers = <<>> THEN proxy_out = "SPY"
        ELSE IF MatrixCoversPeers
        THEN \E k \in DOMAIN ProxyPeers :
                /\ proxy_out = ProxyPeers[k].symbol
                /\ \A j \in DOMAIN ProxyPeers :
                      /\ CorrToLoser(ProxyPeers[j].symbol) <= CorrToLoser(ProxyPeers[k].symbol)
                      /\ CorrToLoser(ProxyPeers[j].symbol) = CorrToLoser(ProxyPeers[k].symbol)
                            => k <= j
        ELSE ~MatrixHasTicker => proxy_out = ProxyPeers[1].symbol

\* the rows of the matrix that are same-sector candidates
PeerRows ==
    {k \in DOMAIN proxy_in.correlation_matrix.index :
        \E j \in DOMAIN ProxyPeers :
            ProxyPeers[j].symbol = proxy_in.correlation_matrix.index[k]}

\* the correlation lookup applies: a non-empty matrix with the lot's ticker
\* in its index and in its columns and at least one peer in its index
LookupApplies ==
    /\ MatrixHasTicker
    /\ proxy_in.correlation_matrix.columns # {}
    /\ proxy_in.loser_ticker \in proxy_in.correlation_matrix.columns
    /\ PeerRows # {}

\* C17 (amended): without a same-sector candidate the proxy is SPY; when
\* the lookup applies the proxy is the peer of maximum correlation among
\* the peers in the index of the matrix, ties broken by the order of that
\* index; in every other case it is the first same-sector candidate in
\* input order.
C17_TiesInMatrixOrder ==
    ProxyDone =>
        IF ProxyPeers = <<>> THEN proxy_out = "SPY"
        ELSE IF LookupApplies
        THEN \E k \in PeerRows :
                /\ proxy_out = proxy_in.correlation_matrix.index[k]
                /\ \A j \in PeerRows :
                      /\ CorrToLoser(proxy_in.correlation_matrix.index[j])
                            <= CorrToLoser(proxy_in.correlation_matrix.index[k])
                      /\ CorrToLoser(proxy_in.correlation_matrix.index[j])
                            = CorrToLoser(proxy_in.correlation_matrix.index[k])
                            => k <= j
        ELSE proxy_out = ProxyPeers[1].symbol

\* two candidates tie at the maximum; the one that comes first in the index
\* of the matrix, and second among the candidates, was returned
C17_Witness ==
    /\ ProxyDone
    /\ proxy_in.sector = "Technology"
    /\ Len(proxy_in.candidate_tickers) = 2
    /\ proxy_in.candidate_tickers[1].symbol = "MSFT"
    /\ proxy_in.candidate_tickers[2].symbol = "NVDA"
    /\ MatrixSupplied
    /\ proxy_in.correlation_matrix.index = <<"NVDA", "MSFT", "AAPL">>
    /\ "AAPL" \in proxy_in.correlation_matrix.columns
    /\ CorrToLoser("MSFT") = CorrToLoser("NVDA")
    /\ proxy_out = "NVDA"

(***************************************************************************)
(* Properties of the shared sector cache, checked under SpecShare          *)
(***************************************************************************)
\* C20: the shared sector lookup is read-only during requests: no request
\* writes the sector map or its cache file, and the map a request obtained
\* from get_sector_map is unchanged until the end of that request's
\* optimization, under every interleaving with other requests.
C20_SectorMapReadOnly ==
    /\ share_writers = {}
    /\ share_file.exists = FALSE
    /\ \A r \in ShareRequests :
          share_req[r].pc = "mapped" => share_map = share_req[r].view

(***************************************************************************)
(* The solve step and its time limit                                       *)
(***************************************************************************)
\* C21: the solve step is bounded by an explicit solver timeout: while
\* prob.solve is running, the solver holds a time limit given by the call
\* and has not run past it.
C21_SolveBoundedByTimeout ==
    solve_pc = "running" =>
        /\ HasTimeLimit(solve_opts)
        /\ solve_clock <= TimeLimit(solve_opts)

(***************************************************************************)
(* Request parameters, checked under SpecPipe                              *)
(***************************************************************************)
KnownStrategies == {"smallest_market_cap", "largest_market_cap"}

\* a request whose max_weight is outside (0, 1] or whose strategy is unknown
Malformed(req) ==
    \/ /\ req.max_weight # NoValue
       /\ \/ req.max_weight[1] <= 0
          \/ req.max_weight[1] > req.max_weight[2]
    \/ req.strategy \notin KnownStrategies \cup {None}

\* C22: a request with malformed parameters is rejected before any
\* computation starts: no stage of the pipeline is invoked for it, and its
\* outcome, once there is one, is a ConfigError.
C22_MalformedRejectedBeforeComputation ==
    (pipe_pc # "idle" /\ Malformed(pipe_req)) =>
        /\ pipe_stages = <<>>
        /\ pipe_out.kind # "none" => pipe_out.exc = "ConfigError"

(***************************************************************************)
(* The totals of generate_attribution_report against the Brinson-Fachler   *)
(* reference, computed from the arguments of the call (attr_in)            *)
(***************************************************************************)
\* return and sector of the ticker at position i: 0 and "Unknown" when the
\* ticker is missing from the returns or from the sector map
BF_Return(in, i) == IF in.profile[i].ret = NoValue THEN RatZero ELSE in.profile[i].ret
BF_Sector(in, i) ==
    IF in.tickers[i] \in DOMAIN in.sector_map THEN in.sector_map[in.tickers[i]]
    ELSE "Unknown"
BF_Sectors(in)   == {BF_Sector(in, i) : i \in DOMAIN in.tickers}
BF_Members(in, s) == {i \in DOMAIN in.tickers : BF_Sector(in, i) = s}

\* sum over the positions in S of weight(i) * return(i), and of weight(i)
BF_Wp(in, S)  == RatSum([i \in S |-> in.profile[i].wp], S)
BF_Wb(in, S)  == RatSum([i \in S |-> in.profile[i].wb], S)
BF_WpR(in, S) == RatSum([i \in S |-> RatMul(in.profile[i].wp, BF_Return(in, i))], S)
BF_WbR(in, S) == RatSum([i \in S |-> RatMul(in.profile[i].wb, BF_Return(in, i))], S)

\* R_p, R_b of a sector: the weight-averaged return, 0 when the weight is 0
BF_Rp(in, s) ==
    LET S == BF_Members(in, s)
    IN  IF BF_Wp(in, S)[1] = 0 THEN RatZero ELSE RatDiv(BF_WpR(in, S), BF_Wp(in, S))
BF_Rb(in, s) ==
    LET S == BF_Members(in, s)
    IN  IF BF_Wb(in, S)[1] = 0 THEN RatZero ELSE RatDiv(BF_WbR(in, S), BF_Wb(in, S))

\* R_bench_total: over the entire universe
BF_BenchTotal(in) == BF_WbR(in, DOMAIN in.tickers)

\* sum_s (w_p - w_b) * (R_b - R_bench_total)
BF_Allocation(in) ==
    LET term == [s \in BF_Sectors(in) |->
                    LET S == BF_Members(in, s)
                    IN  RatMul(RatSub(BF_Wp(in, S), BF_Wb(in, S)),
                               RatSub(BF_Rb(in, s), BF_BenchTotal(in)))]
    IN  RatSum(term, BF_Sectors(in))

\* sum_s w_b * (R_p - R_b) + sum_s (w_p - w_b) * (R_p - R_b)
BF_Selection(in) ==
    LET sel == [s \in BF_Sectors(in) |->
                    RatMul(BF_Wb(in, BF_Members(in, s)),
                           RatSub(BF_Rp(in, s), BF_Rb(in, s)))]
        int == [s \in BF_Sectors(in) |->
                    LET S == BF_Members(in, s)
                    IN  RatMul(RatSub(BF_Wp(in, S), BF_Wb(in, S)),
                               RatSub(BF_Rp(in, s), BF_Rb(in, s)))]
    IN  RatAdd(RatSum(sel, BF_Sectors(in)), RatSum(int, BF_Sectors(in)))

C24_CleanupKeepsFromEpsilon ==
    opt_out.kind = "result" =>
        \A i \in DOMAIN opt_prob.w :
            LET t == opt_args.tickers[i]
            IN  IF opt_prob.w[i] >= EPS
                  THEN t \in DOMAIN opt_out.weights
                         /\ opt_out.weights[t] = opt_prob.w[i]
                  ELSE t \notin DOMAIN opt_out.weights

(***************************************************************************)
(* The order of the stages of run_pipeline, checked under SpecPipe         *)
(***************************************************************************)
StagePrefix(k) == SubSeq(AllStages, 1, k)
StagesInvoked  == {pipe_stages[k] : k \in DOMAIN pipe_stages}
DataIsEmpty    == pipe_env.prices.rows = 0 \/ pipe_env.prices.cols = 0

C26_ProxyDiffersFromSold ==
    TaxDone =>
        \A k \in DOMAIN tax_out :
            tax_out[k].buy_proxy_ticker # tax_out[k].sell_ticker

====
